---- MODULE Spec2Model ----
(***************************************************************************)
(* ZeroPR agent: the peer registry, the mDNS discovery loop, the broadcast  *)
(* controller, the session manager and the WebSocket relay, modelled from  *)
(* agent/internal/{peers,discovery,sessions,server}.                       *)
(*                                                                         *)
(* Go maps are modelled by their graph: a set of [key, val] entries.       *)
(* A TXT record, which the code takes apart, is a sequence of tokens.      *)
(* Time is a natural number read from the variable now (time.Now()).       *)
(***************************************************************************)
EXTENDS Integers, Sequences, FiniteSets, TLC

VARIABLES
    now,        \* the wall clock every time.Now() reads
    peers,      \* peers.Registry.peers : map[string]*Peer
    sessions,   \* sessions.Manager.sessions : map[string]*Session
    createdIDs, \* history: every session id handleSessionCreate has produced
    mu,         \* Registry.mu: the goroutine holding the write lock, or "free"
    pc,         \* where each goroutine calling Registry.Add or Cleanup stands
    arg,        \* the argument of each goroutine's call in progress
    cleanupNow, \* the local now of the Cleanup in progress
    todo,       \* the keys the Cleanup in progress has still to range over
    passAdded,  \* history: the ids stored while the current Cleanup held the lock
    localIPv4,  \* discovery.Service.localIPv4
    localIPv6,  \* discovery.Service.localIPv6
    server,     \* discovery.Service.server: "nil", "registered" or "shutdown"
    broadcasting, \* discovery.Service.broadcasting
    loop,       \* where the discovery loop of startDiscovery stands
    entries,    \* the entries channel of the browse in progress
    cycles,     \* the number of browse cycles started
    registrations, \* history: the advertisements zeroconf.Register has registered
    loopsStarted,  \* history: the times StartBroadcast ran "go s.startDiscovery()"
    shutdowns,  \* history: the calls of s.server.Shutdown()
    managerMu,  \* Manager.mu: "free", or "writer" while RemoveParticipant holds it
    leaving,    \* the RemoveParticipant call in progress: its position and arguments
    conns,      \* the WebSocket connections of handleYjsSync, by client
    cancelled,  \* discovery.Service.ctx is done (s.cancel() has been called)
    mainPc,     \* where main stands: "running" until the signal, "exited" at the end
    dateNow,    \* the extension host's clock every Date.now() reads, in ms
    waits,      \* the number of times the extension host's clock has advanced
    presence,   \* the extension's PresenceManager: its fields
    localPresence, \* Server.localPresence
    advertised, \* the TXT records of the advertisement registered last
    startPc,    \* where each handler goroutine running StartBroadcast stands
    loopsRunning,  \* the discovery loops launched that have not returned
    liveServers,   \* the zeroconf servers registered and not shut down
    clientIn,   \* history: the sessions each client created or joined and has not left
    activeSession, \* the extension's SessionManager.activeSession
    calls,      \* the startCoEdit and stopCoEdit calls in progress
    lastOp      \* history: the last operation, its arguments and its result

mgrLockVars == <<managerMu, leaving>>

relayVars == <<conns>>

sessVars == <<sessions, createdIDs, mgrLockVars, relayVars>>

lockVars == <<mu, pc, arg, cleanupNow, todo, passAdded>>

ctlHist == <<registrations, loopsStarted, shutdowns, loopsRunning, liveServers, advertised>>

lifeVars == <<cancelled, mainPc>>

discVars == <<localIPv4, localIPv6, server, broadcasting, loop, entries, cycles, ctlHist,
              lifeVars>>

presenceVars == <<dateNow, waits, presence>>

agentVars == <<localPresence, startPc>>

editorVars == <<clientIn, activeSession, calls>>

restVars == <<agentVars, editorVars>>

vars == <<now, peers, sessVars, lockVars, discVars, presenceVars, restVars, lastOp>>

----------------------------------------------------------------------------
(* Bounds of the model *)

MaxTime == 4        \* the clock stops advancing here
MaxTTL == 2         \* Cleanup is called with a timeout in 0..MaxTTL
MaxSessions == 2    \* handleSessionCreate is not taken beyond this many sessions
MaxLockTime == 2    \* the clock of the locking specification stops here
MaxLockTTL == 1     \* the concurrent Cleanup is called with a timeout in 0..MaxLockTTL
MaxCycles == 2      \* the discovery loop starts at most this many browse cycles
MaxEntries == 1     \* the entries channel holds at most this many entries
MaxSessionTime == 2 \* the clock of the session specification stops here
MaxMessages == 2    \* the clients write at most this many messages in all
MaxStarts == 2      \* StartBroadcast registers at most this many advertisements
MaxStops == 3       \* StopBroadcast calls s.server.Shutdown() at most this many times
MaxWaits == 5       \* the extension host's clock advances at most this many times

----------------------------------------------------------------------------
(* Go's map[K]V *)

MapHas(m, k) == \E e \in m : e.key = k

MapGet(m, k) == (CHOOSE e \in m : e.key = k).val

MapKeys(m) == {e.key : e \in m}

\* len(m)
MapLen(m) == Cardinality(m)

\* m[k] = v
MapAssign(m, k, v) == {e \in m : e.key # k} \cup {[key |-> k, val |-> v]}

\* delete(m, k)
MapDelete(m, k) == {e \in m : e.key # k}

\* The entries of m stored under k (a map holds at most one).
EntriesFor(m, k) == {e \in m : e.key = k}

----------------------------------------------------------------------------
(* package peers: Registry *)

\* fmt.Sprintf("%s@%s:%d", entry.Instance, address, entry.Port)
FormatPeerID(instance, address, port) ==
    instance \o "@" \o address \o ":" \o ToString(port)

\* handleAddMockPeer
MockPeerID == "mock-peer-1"

\* The peers callers hand to Registry.Add in the registry specification:
\* any identifier, any caller-written LastSeen.
PeerIDs == {MockPeerID,
            FormatPeerID("bob-laptop", "10.0.0.7", 8080),
            FormatPeerID("carol-pc", "10.0.0.9", 8080)}

PeerStatuses == {"idle", "editing"}

CallerPeers ==
    [ID : PeerIDs, Name : {"Alice's Laptop"}, Address : {"10.0.0.5"}, Port : {8080},
     RepoHash : {"abc123"}, Branch : {"feat/auth"},
     ActiveFile : {"src/components/Login.tsx"}, Status : PeerStatuses,
     LastSeen : {0, MaxTime}, Trusted : {FALSE}]

\* The peers the concurrent callers hand to Registry.Add.
LockPeerIDs == {MockPeerID, FormatPeerID("bob-laptop", "10.0.0.7", 8080)}

LockPeers == {p \in CallerPeers : p.ID \in LockPeerIDs /\ p.Status = "idle" /\ p.LastSeen = 0}

\* Registry.Add with a caller-trusted timestamp.
RegistryAddTrustingCaller(ps, peer, t) == MapAssign(ps, peer.ID, peer)

\* Registry.Add that appends instead of replacing the entry of peer.ID.
RegistryAddAppending(ps, peer, t) ==
    ps \cup {[key |-> peer.ID, val |-> [peer EXCEPT !.LastSeen = t]]}

\* Registry.Add: peer.LastSeen = time.Now(); r.peers[peer.ID] = peer
RegistryAdd(ps, peer, t) ==
    MapAssign(ps, peer.ID, [peer EXCEPT !.LastSeen = t])

\* Registry.Get
RegistryGet(ps, id) ==
    IF MapHas(ps, id) THEN [peer |-> MapGet(ps, id), ok |-> TRUE]
    ELSE [peer |-> <<>>, ok |-> FALSE]

\* Registry.GetAll: the stored peers, in the map's iteration order (unspecified)
RegistryGetAll(ps) == {e.val : e \in ps}

\* Registry.Remove that empties the map.
RegistryRemoveAll(ps, id) == {}

\* Registry.Remove
RegistryRemove(ps, id) == MapDelete(ps, id)

\* The test of Registry.Cleanup: now.Sub(peer.LastSeen) > timeout
Stale(peer, timeout, t) == t - peer.LastSeen > timeout

\* Registry.Cleanup deleting at age = timeout as well.
RegistryCleanupInclusive(ps, timeout, t) ==
    {e \in ps : ~(t - e.val.LastSeen >= timeout)}

\* Registry.Cleanup
RegistryCleanup(ps, timeout, t) == {e \in ps : ~Stale(e.val, timeout, t)}

\* Registry.Count
RegistryCount(ps) == MapLen(ps)

----------------------------------------------------------------------------
(* The registry's operations, each one call under r.mu *)

\* Time passes.
Tick ==
    /\ now < MaxTime
    /\ now' = now + 1
    /\ lastOp' = [op |-> "Tick"]
    /\ UNCHANGED <<peers, sessVars, discVars, lockVars, presenceVars, restVars>>

Add(peer) ==
    /\ peers' = RegistryAdd(peers, peer, now)
    /\ lastOp' = [op |-> "Add", peer |-> peer, pre |-> peers]
    /\ UNCHANGED <<now, sessVars, discVars, lockVars, presenceVars, restVars>>

Get(id) ==
    /\ lastOp' = [op |-> "Get", id |-> id, result |-> RegistryGet(peers, id)]
    /\ UNCHANGED <<now, peers, sessVars, discVars, lockVars, presenceVars, restVars>>

GetAll ==
    /\ lastOp' = [op |-> "GetAll", result |-> RegistryGetAll(peers)]
    /\ UNCHANGED <<now, peers, sessVars, discVars, lockVars, presenceVars, restVars>>

Remove(id) ==
    /\ peers' = RegistryRemove(peers, id)
    /\ lastOp' = [op |-> "Remove", id |-> id, pre |-> peers]
    /\ UNCHANGED <<now, sessVars, discVars, lockVars, presenceVars, restVars>>

Cleanup(timeout) ==
    /\ peers' = RegistryCleanup(peers, timeout, now)
    /\ lastOp' = [op |-> "Cleanup", timeout |-> timeout, pre |-> peers]
    /\ UNCHANGED <<now, sessVars, discVars, lockVars, presenceVars, restVars>>

Count ==
    /\ lastOp' = [op |-> "Count", result |-> RegistryCount(peers)]
    /\ UNCHANGED <<now, peers, sessVars, discVars, lockVars, presenceVars, restVars>>

----------------------------------------------------------------------------
(* Registry.Add and Registry.Cleanup as goroutines see them: each call      *)
(* takes r.mu, runs its body and releases r.mu on return.                   *)

\* The goroutines that call Registry.Add: the discovery loop's entry
\* consumer and the HTTP handler handleAddMockPeer.
Adders == {"consumer", "http"}

\* The goroutine that calls Registry.Cleanup: the discovery loop.
Cleaner == "loop"

Goroutines == Adders \cup {Cleaner}

\* A goroutine is between r.mu.Lock() and r.mu.Unlock().
InCriticalSection(g) == pc[g] \in {"store", "range"}

\* r.mu.Lock() that does not wait.
LockNotWaiting(m) == TRUE

\* r.mu.Lock() returns only when no goroutine holds the lock.
LockAvailable(m) == m = "free"

\* A goroutine calls Registry.Add(peer).
AddCall(g, peer) ==
    /\ pc[g] = "idle"
    /\ pc' = [pc EXCEPT ![g] = "lock"]
    /\ arg' = [arg EXCEPT ![g] = [peer |-> peer, duringPass |-> pc[Cleaner] = "range"]]
    /\ lastOp' = [op |-> "AddCall", g |-> g]
    /\ UNCHANGED <<now, peers, sessVars, discVars, mu, cleanupNow, todo, passAdded, presenceVars, restVars>>

\* Add: r.mu.Lock()
AddLock(g) ==
    /\ pc[g] = "lock"
    /\ LockAvailable(mu)
    /\ mu' = g
    /\ pc' = [pc EXCEPT ![g] = "store"]
    /\ lastOp' = [op |-> "AddLock", g |-> g]
    /\ UNCHANGED <<now, peers, sessVars, discVars, arg, cleanupNow, todo, passAdded, presenceVars, restVars>>

\* Add: the body, and the deferred r.mu.Unlock()
AddStore(g) ==
    /\ pc[g] = "store"
    /\ peers' = RegistryAdd(peers, arg[g].peer, now)
    /\ passAdded' = IF pc[Cleaner] = "range" THEN passAdded \cup {arg[g].peer.ID}
                    ELSE passAdded
    /\ mu' = "free"
    /\ pc' = [pc EXCEPT ![g] = "idle"]
    /\ arg' = [arg EXCEPT ![g] = <<>>]
    /\ lastOp' = [op |-> "AddStore", g |-> g, id |-> arg[g].peer.ID,
                  duringPass |-> arg[g].duringPass]
    /\ UNCHANGED <<now, sessVars, discVars, cleanupNow, todo, presenceVars, restVars>>

\* The discovery loop calls Registry.Cleanup(timeout).
CleanupCall(timeout) ==
    /\ pc[Cleaner] = "idle"
    /\ pc' = [pc EXCEPT ![Cleaner] = "lock"]
    /\ arg' = [arg EXCEPT ![Cleaner] = [timeout |-> timeout]]
    /\ lastOp' = [op |-> "CleanupCall"]
    /\ UNCHANGED <<now, peers, sessVars, discVars, mu, cleanupNow, todo, passAdded, presenceVars, restVars>>

\* Cleanup: r.mu.Lock(); now := time.Now(); the range over r.peers begins
CleanupLock ==
    /\ pc[Cleaner] = "lock"
    /\ LockAvailable(mu)
    /\ mu' = Cleaner
    /\ cleanupNow' = now
    /\ todo' = MapKeys(peers)
    /\ passAdded' = {}
    /\ pc' = [pc EXCEPT ![Cleaner] = "range"]
    /\ lastOp' = [op |-> "CleanupLock"]
    /\ UNCHANGED <<now, peers, sessVars, discVars, arg, presenceVars, restVars>>

\* Cleanup: one iteration of the range, on an entry still in the map
CleanupVisit(id) ==
    /\ pc[Cleaner] = "range"
    /\ id \in todo
    /\ todo' = todo \ {id}
    /\ IF MapHas(peers, id) /\ Stale(MapGet(peers, id), arg[Cleaner].timeout, cleanupNow)
       THEN /\ peers' = MapDelete(peers, id)
            /\ lastOp' = [op |-> "CleanupVisit", id |-> id, deleted |-> TRUE,
                          lastSeen |-> MapGet(peers, id).LastSeen,
                          addedInPass |-> id \in passAdded]
       ELSE /\ lastOp' = [op |-> "CleanupVisit", id |-> id, deleted |-> FALSE]
            /\ UNCHANGED peers
    /\ UNCHANGED <<now, sessVars, discVars, mu, pc, arg, cleanupNow, passAdded, presenceVars, restVars>>

\* Cleanup: the range is over; the deferred r.mu.Unlock()
CleanupReturn ==
    /\ pc[Cleaner] = "range"
    /\ todo = {}
    /\ mu' = "free"
    /\ pc' = [pc EXCEPT ![Cleaner] = "idle"]
    /\ arg' = [arg EXCEPT ![Cleaner] = <<>>]
    /\ cleanupNow' = 0
    /\ passAdded' = {}
    /\ lastOp' = [op |-> "CleanupReturn"]
    /\ UNCHANGED <<now, peers, sessVars, discVars, todo, presenceVars, restVars>>

----------------------------------------------------------------------------
(* package discovery: Service *)

\* main: deviceLabel and *httpPort, handed to discovery.NewService
deviceName == "zeropr-agent-host"

port == 8080

\* Durations, in units of 5 seconds: the browse timeout, the sleep between
\* two cycles and the timeout of the loop's Cleanup (5 minutes).
BrowseTimeout == 1

SleepTime == 1

CleanupTimeout == 60

\* What net.Interfaces() and iface.Addrs() can return on this host.
Addr(ip, v4, loopback) == [ip |-> ip, v4 |-> v4, loopback |-> loopback]

Loopback == [up |-> TRUE, addrsOK |-> TRUE,
             addrs |-> {Addr("127.0.0.1", TRUE, TRUE), Addr("::1", FALSE, TRUE)}]

HostNetworks ==
    { [err |-> TRUE, ifaces |-> {}],
      [err |-> FALSE, ifaces |-> {Loopback,
          [up |-> TRUE, addrsOK |-> TRUE,
           addrs |-> {Addr("192.168.1.10", TRUE, FALSE), Addr("fe80::1", FALSE, FALSE)}]}],
      [err |-> FALSE, ifaces |-> {Loopback,
          [up |-> TRUE, addrsOK |-> TRUE, addrs |-> {Addr("192.168.1.20", TRUE, FALSE)}],
          [up |-> FALSE, addrsOK |-> TRUE, addrs |-> {Addr("192.168.1.10", TRUE, FALSE)}]}],
      [err |-> FALSE, ifaces |-> {Loopback,
          [up |-> TRUE, addrsOK |-> FALSE, addrs |-> {Addr("192.168.1.10", TRUE, FALSE)}]}] }

\* The addresses updateLocalAddrs collects: those of the interfaces that
\* are up and list their addresses, loopback and unspecified ones skipped.
CollectAddrs(ifaces, v4) ==
    {a.ip : a \in {b \in UNION {i.addrs : i \in {j \in ifaces : j.up /\ j.addrsOK}} :
                       ~b.loopback /\ b.v4 = v4}}

\* updateLocalAddrs: the new (localIPv4, localIPv6); unchanged when
\* net.Interfaces() fails
updateLocalAddrs(net, old4, old6) ==
    IF net.err THEN [ipv4 |-> old4, ipv6 |-> old6]
    ELSE [ipv4 |-> CollectAddrs(net.ifaces, TRUE), ipv6 |-> CollectAddrs(net.ifaces, FALSE)]

\* isSelf as the older loop of server.go has it: the instance name alone.
isSelfNameOnly(entry, ipv4, ipv6) == entry.Instance = deviceName

\* isSelf without the loop over entry.AddrIPv6.
isSelfIPv4Only(entry, ipv4, ipv6) ==
    IF entry.Port # port \/ entry.Instance # deviceName
    THEN FALSE
    ELSE \E i \in 1..Len(entry.AddrIPv4) : entry.AddrIPv4[i] \in ipv4

\* isSelf, for a non-nil entry
isSelf(entry, ipv4, ipv6) ==
    IF entry.Port # port \/ entry.Instance # deviceName
    THEN FALSE
    ELSE \/ \E i \in 1..Len(entry.AddrIPv4) : entry.AddrIPv4[i] \in ipv4
         \/ \E i \in 1..Len(entry.AddrIPv6) : entry.AddrIPv6[i] \in ipv6

\* strings.IndexByte on a tokenised string: the first index of c, 0 for Go's -1
IndexByte(s, c) ==
    IF \E i \in 1..Len(s) : s[i] = c
    THEN CHOOSE i \in 1..Len(s) : s[i] = c /\ \A j \in 1..(i - 1) : s[j] # c
    ELSE 0

\* strings.TrimSpace on a tokenised string
RECURSIVE TrimSpace(_)
TrimSpace(s) ==
    IF s = <<>> THEN s
    ELSE IF Head(s) = " " THEN TrimSpace(Tail(s))
    ELSE IF s[Len(s)] = " " THEN TrimSpace(SubSeq(s, 1, Len(s) - 1))
    ELSE s

\* The string a token sequence stands for.
RECURSIVE Concat(_)
Concat(s) == IF s = <<>> THEN "" ELSE Head(s) \o Concat(Tail(s))

\* parseTXT, the records not yet read and the map built so far
RECURSIVE parseTXTFrom(_, _)
parseTXTFrom(records, values) ==
    IF records = <<>> THEN values
    ELSE LET record == Head(records)
             eq == IndexByte(record, "=")
         IN  IF record = <<>>
             THEN parseTXTFrom(Tail(records), values)
             ELSE IF eq > 0
             THEN LET key == Concat(TrimSpace(SubSeq(record, 1, eq - 1)))
                      value == Concat(TrimSpace(SubSeq(record, eq + 1, Len(record))))
                  IN  parseTXTFrom(Tail(records),
                          IF key # "" THEN MapAssign(values, key, value) ELSE values)
             ELSE parseTXTFrom(Tail(records),
                      MapAssign(values, Concat(TrimSpace(record)), ""))

\* parseTXT
parseTXT(records) == parseTXTFrom(records, {})

\* txt[k]: the value under k, "" when k is absent
MapIndex(m, k) == IF MapHas(m, k) THEN MapGet(m, k) ELSE ""

\* buildPeer, for a non-nil entry: ok is FALSE for the nil result
buildPeer(entry, t) ==
    IF Len(entry.AddrIPv4) = 0 /\ Len(entry.AddrIPv6) = 0
    THEN [ok |-> FALSE, peer |-> <<>>]
    ELSE LET address == IF Len(entry.AddrIPv4) > 0 THEN entry.AddrIPv4[1]
                        ELSE entry.AddrIPv6[1]
             txt == parseTXT(entry.Text)
             status == IF MapHas(txt, "status") /\ MapGet(txt, "status") # ""
                       THEN MapGet(txt, "status") ELSE "idle"
         IN  [ok |-> TRUE,
              peer |-> [ID |-> FormatPeerID(entry.Instance, address, entry.Port),
                        Name |-> entry.Instance,
                        Address |-> address,
                        Port |-> entry.Port,
                        RepoHash |-> MapIndex(txt, "repoHash"),
                        Branch |-> MapIndex(txt, "branch"),
                        ActiveFile |-> MapIndex(txt, "activeFile"),
                        Status |-> status,
                        LastSeen |-> t,
                        Trusted |-> MapIndex(txt, "trusted") = "true"]]

\* The service entries a browse can deliver.
VersionTXT == <<<<"version", "=", "0.1.0">>>>

ServiceEntries ==
    { [Instance |-> deviceName, Port |-> port, AddrIPv4 |-> <<"192.168.1.10">>,
       AddrIPv6 |-> <<>>, Text |-> VersionTXT],
      [Instance |-> deviceName, Port |-> port, AddrIPv4 |-> <<"192.168.1.20">>,
       AddrIPv6 |-> <<"fe80::1">>, Text |-> VersionTXT],
      [Instance |-> deviceName, Port |-> port, AddrIPv4 |-> <<>>,
       AddrIPv6 |-> <<>>, Text |-> VersionTXT],
      [Instance |-> deviceName, Port |-> 9090, AddrIPv4 |-> <<"192.168.1.10">>,
       AddrIPv6 |-> <<>>,
       Text |-> <<<<" ", "status", "=", "editing">>, <<"trusted", "=", "true", " ">>>>],
      [Instance |-> "bob-laptop", Port |-> port, AddrIPv4 |-> <<"192.168.1.10">>,
       AddrIPv6 |-> <<>>, Text |-> <<<<>>, <<"branch">>, <<"=", "x">>>>] }

----------------------------------------------------------------------------
(* The discovery loop *)

\* StartBroadcast without the test of s.broadcasting.
StartBroadcastUnguarded ==
    /\ \E registerOK \in BOOLEAN :
            IF ~registerOK
            THEN /\ lastOp' = [op |-> "StartBroadcast", register |-> "failed",
                               err |-> "failed to register service"]
                 /\ UNCHANGED <<localIPv4, localIPv6, server, broadcasting, loop, ctlHist>>
            ELSE \E resolverOK \in BOOLEAN, net \in HostNetworks :
                 LET addrs == updateLocalAddrs(net, localIPv4, localIPv6) IN
                 /\ registrations < MaxStarts
                 /\ server' = "registered"
                 /\ broadcasting' = TRUE
                 /\ localIPv4' = addrs.ipv4
                 /\ localIPv6' = addrs.ipv6
                 /\ loop' = IF resolverOK /\ ~cancelled /\ loop = "off" THEN "select" ELSE loop
                 /\ registrations' = registrations + 1
                 /\ liveServers' = liveServers + 1
                 /\ advertised' = VersionTXT
                 /\ loopsStarted' = loopsStarted + 1
                 /\ loopsRunning' = IF resolverOK /\ ~cancelled THEN loopsRunning + 1
                                    ELSE loopsRunning
                 /\ UNCHANGED shutdowns
                 /\ lastOp' = [op |-> "StartBroadcast", register |-> "ok", err |-> ""]
    /\ UNCHANGED <<now, peers, sessVars, lockVars, entries, cycles, lifeVars, presenceVars, restVars>>

\* StartBroadcast that sets s.broadcasting and launches startDiscovery
\* before zeroconf.Register has answered.
StartBroadcastFlagFirst ==
    /\ IF broadcasting
       THEN /\ lastOp' = [op |-> "StartBroadcast", register |-> "not called",
                          err |-> "already broadcasting"]
            /\ UNCHANGED <<localIPv4, localIPv6, server, broadcasting, loop, ctlHist>>
       ELSE \E registerOK \in BOOLEAN, net \in HostNetworks :
            LET addrs == updateLocalAddrs(net, localIPv4, localIPv6) IN
            /\ registrations < MaxStarts
            /\ broadcasting' = TRUE
            /\ localIPv4' = addrs.ipv4
            /\ localIPv6' = addrs.ipv6
            /\ loop' = IF ~cancelled /\ loop = "off" THEN "select" ELSE loop
            /\ loopsStarted' = loopsStarted + 1
            /\ server' = IF registerOK THEN "registered" ELSE server
            /\ registrations' = IF registerOK THEN registrations + 1 ELSE registrations
            /\ liveServers' = IF registerOK THEN liveServers + 1 ELSE liveServers
            /\ advertised' = IF registerOK THEN VersionTXT ELSE advertised
            /\ loopsRunning' = IF ~cancelled THEN loopsRunning + 1 ELSE loopsRunning
            /\ UNCHANGED shutdowns
            /\ lastOp' = IF registerOK
                          THEN [op |-> "StartBroadcast", register |-> "ok", err |-> ""]
                          ELSE [op |-> "StartBroadcast", register |-> "failed",
                                err |-> "failed to register service"]
    /\ UNCHANGED <<now, peers, sessVars, lockVars, entries, cycles, lifeVars, presenceVars, restVars>>

\* StartBroadcast: already broadcasting, or zeroconf.Register fails, or the
\* service is registered, the local addresses are read and startDiscovery
\* is launched (its loop does not start when zeroconf.NewResolver fails and
\* leaves at once when s.ctx is done). loop follows the first loop launched;
\* a loop launched while that one still runs is counted in loopsStarted.
\* register tells whether zeroconf.Register was called and what it answered.
StartBroadcast ==
    /\ IF broadcasting
       THEN /\ lastOp' = [op |-> "StartBroadcast", register |-> "not called",
                          err |-> "already broadcasting"]
            /\ UNCHANGED <<localIPv4, localIPv6, server, broadcasting, loop, ctlHist>>
       ELSE \E registerOK \in BOOLEAN :
            IF ~registerOK
            THEN /\ lastOp' = [op |-> "StartBroadcast", register |-> "failed",
                               err |-> "failed to register service"]
                 /\ UNCHANGED <<localIPv4, localIPv6, server, broadcasting, loop, ctlHist>>
            ELSE \E resolverOK \in BOOLEAN, net \in HostNetworks :
                 LET addrs == updateLocalAddrs(net, localIPv4, localIPv6) IN
                 /\ registrations < MaxStarts
                 /\ server' = "registered"
                 /\ broadcasting' = TRUE
                 /\ localIPv4' = addrs.ipv4
                 /\ localIPv6' = addrs.ipv6
                 /\ loop' = IF resolverOK /\ ~cancelled /\ loop = "off" THEN "select" ELSE loop
                 /\ registrations' = registrations + 1
                 /\ liveServers' = liveServers + 1
                 /\ advertised' = VersionTXT
                 /\ loopsStarted' = loopsStarted + 1
                 /\ loopsRunning' = IF resolverOK /\ ~cancelled THEN loopsRunning + 1
                                    ELSE loopsRunning
                 /\ UNCHANGED shutdowns
                 /\ lastOp' = [op |-> "StartBroadcast", register |-> "ok", err |-> ""]
    /\ UNCHANGED <<now, peers, sessVars, lockVars, entries, cycles, lifeVars, presenceVars, restVars>>

\* StopBroadcast: s.server.Shutdown() and broadcasting = false when s.server
\* is not nil; s.server keeps pointing at the server that was shut down.
StopBroadcast ==
    /\ IF server # "nil"
       THEN /\ shutdowns < MaxStops
            /\ server' = "shutdown"
            /\ broadcasting' = FALSE
            /\ shutdowns' = shutdowns + 1
            /\ liveServers' = IF server = "registered" THEN liveServers - 1 ELSE liveServers
            /\ lastOp' = [op |-> "StopBroadcast", shutdown |-> TRUE,
                          wasBroadcasting |-> broadcasting]
       ELSE /\ lastOp' = [op |-> "StopBroadcast", shutdown |-> FALSE,
                          wasBroadcasting |-> broadcasting]
            /\ UNCHANGED <<server, broadcasting, shutdowns, liveServers>>
    /\ UNCHANGED <<now, peers, sessVars, lockVars, localIPv4, localIPv6, loop, entries,
                   cycles, registrations, loopsStarted, loopsRunning, advertised, lifeVars, presenceVars, restVars>>

\* IsBroadcasting
IsBroadcasting ==
    /\ lastOp' = [op |-> "IsBroadcasting", result |-> broadcasting]
    /\ UNCHANGED <<now, peers, sessVars, lockVars, discVars, presenceVars, restVars>>

\* The loop's default branch: updateLocalAddrs, a new entries channel, the
\* consumer and the drainer are started and Browse is called.
LoopSelect(net) ==
    /\ loop = "select"
    /\ ~cancelled
    /\ cycles < MaxCycles
    /\ LET addrs == updateLocalAddrs(net, localIPv4, localIPv6) IN
       /\ localIPv4' = addrs.ipv4
       /\ localIPv6' = addrs.ipv6
    /\ entries' = <<>>
    /\ cycles' = cycles + 1
    /\ loop' = "browse"
    /\ lastOp' = [op |-> "LoopSelect"]
    /\ UNCHANGED <<now, peers, sessVars, lockVars, ctlHist, lifeVars, server, broadcasting, presenceVars, restVars>>

\* resolver.Browse sends an entry on the channel.
BrowseSend(entry) ==
    /\ loop = "browse"
    /\ Len(entries) < MaxEntries
    /\ entries' = Append(entries, entry)
    /\ lastOp' = [op |-> "BrowseSend"]
    /\ UNCHANGED <<now, peers, sessVars, lockVars, localIPv4, localIPv6, ctlHist, lifeVars, server,
                   broadcasting, loop, cycles, presenceVars, restVars>>

\* BrowseReturn that leaves the loop when Browse returns an error other
\* than the end of its context.
BrowseReturnFatal(timedOut) ==
    /\ loop = "browse"
    /\ now' = IF timedOut THEN now + BrowseTimeout ELSE now
    /\ loop' = IF timedOut THEN "wait" ELSE "stopped"
    /\ lastOp' = [op |-> "BrowseReturn", timedOut |-> timedOut]
    /\ UNCHANGED <<peers, sessVars, lockVars, localIPv4, localIPv6, ctlHist, lifeVars, server,
                   broadcasting, entries, cycles, presenceVars, restVars>>

\* resolver.Browse returns, at the browse timeout or earlier with an error;
\* the channel is closed.
BrowseReturn(timedOut) ==
    /\ loop = "browse"
    /\ now' = IF timedOut THEN now + BrowseTimeout ELSE now
    /\ loop' = "wait"
    /\ lastOp' = [op |-> "BrowseReturn", timedOut |-> timedOut]
    /\ UNCHANGED <<peers, sessVars, lockVars, localIPv4, localIPv6, ctlHist, lifeVars, server,
                   broadcasting, entries, cycles, presenceVars, restVars>>

\* The consumer goroutine receives one entry: skipped when isSelf, else
\* built into a peer and added to the registry.
Consume ==
    /\ loop \in {"browse", "wait"}
    /\ entries # <<>>
    /\ LET entry == Head(entries)
           self == isSelf(entry, localIPv4, localIPv6)
           built == buildPeer(entry, now)
       IN  /\ peers' = IF ~self /\ built.ok THEN RegistryAdd(peers, built.peer, now)
                       ELSE peers
           /\ lastOp' = [op |-> "Consume", entry |-> entry, self |-> self,
                         added |-> ~self /\ built.ok]
    /\ entries' = Tail(entries)
    /\ UNCHANGED <<now, sessVars, lockVars, localIPv4, localIPv6, ctlHist, lifeVars, server,
                   broadcasting, loop, cycles, presenceVars, restVars>>

\* The drainer goroutine, once the browse context is done, receives one
\* entry and drops it.
Drain ==
    /\ loop = "wait"
    /\ entries # <<>>
    /\ entries' = Tail(entries)
    /\ lastOp' = [op |-> "Drain", entry |-> Head(entries)]
    /\ UNCHANGED <<now, peers, sessVars, lockVars, localIPv4, localIPv6, ctlHist, lifeVars, server,
                   broadcasting, loop, cycles, presenceVars, restVars>>

\* LoopCleanup with the browse window as the retention horizon.
LoopCleanupBrowseHorizon ==
    /\ loop = "wait"
    /\ entries = <<>>
    /\ peers' = RegistryCleanup(peers, BrowseTimeout, now)
    /\ loop' = "sleep"
    /\ lastOp' = [op |-> "LoopCleanup"]
    /\ UNCHANGED <<now, sessVars, lockVars, localIPv4, localIPv6, ctlHist, lifeVars, server,
                   broadcasting, entries, cycles, presenceVars, restVars>>

\* LoopCleanup as the older loop of server.go has it: Cleanup right after
\* Browse returns, without the wait for the consumer (<-done).
LoopCleanupNotWaiting ==
    /\ loop = "wait"
    /\ peers' = RegistryCleanup(peers, CleanupTimeout, now)
    /\ loop' = "sleep"
    /\ lastOp' = [op |-> "LoopCleanup"]
    /\ UNCHANGED <<now, sessVars, lockVars, localIPv4, localIPv6, ctlHist, lifeVars, server,
                   broadcasting, entries, cycles, presenceVars, restVars>>

\* The consumer finds the channel closed and empty; the loop passes <-done
\* and calls Registry.Cleanup(5 * time.Minute).
LoopCleanup ==
    /\ loop = "wait"
    /\ entries = <<>>
    /\ peers' = RegistryCleanup(peers, CleanupTimeout, now)
    /\ loop' = "sleep"
    /\ lastOp' = [op |-> "LoopCleanup"]
    /\ UNCHANGED <<now, sessVars, lockVars, localIPv4, localIPv6, ctlHist, lifeVars, server,
                   broadcasting, entries, cycles, presenceVars, restVars>>

\* time.Sleep(5 * time.Second)
LoopSleep ==
    /\ loop = "sleep"
    /\ now' = now + SleepTime
    /\ loop' = "select"
    /\ lastOp' = [op |-> "LoopSleep"]
    /\ UNCHANGED <<peers, sessVars, lockVars, localIPv4, localIPv6, ctlHist, lifeVars, server,
                   broadcasting, entries, cycles, presenceVars, restVars>>

\* The loop's select finds s.ctx done and returns.
LoopExit ==
    /\ loop = "select"
    /\ cancelled
    /\ loop' = "stopped"
    /\ loopsRunning' = loopsRunning - 1
    /\ lastOp' = [op |-> "LoopExit"]
    /\ UNCHANGED <<now, peers, sessVars, lockVars, localIPv4, localIPv6, registrations, loopsStarted,
                   shutdowns, liveServers, advertised, lifeVars,
                   server, broadcasting, entries, cycles, presenceVars, restVars>>

\* A loop launched next to the one loop follows finds s.ctx done at its
\* select and returns.
OtherLoopExit ==
    /\ cancelled
    /\ loopsRunning > (IF loop \in {"off", "stopped"} THEN 0 ELSE 1)
    /\ loopsRunning' = loopsRunning - 1
    /\ lastOp' = [op |-> "OtherLoopExit"]
    /\ UNCHANGED <<now, peers, sessVars, lockVars, localIPv4, localIPv6, registrations,
                   loopsStarted, shutdowns, liveServers, advertised, lifeVars, server,
                   broadcasting, loop, entries, cycles, presenceVars, restVars>>

----------------------------------------------------------------------------
(* server.go: the presence handler *)

\* NewServer: localPresence = &LocalPresence{Status: "idle"}; "" stands for
\* the empty ActiveFile, "nil" for the nil Cursor.
NewLocalPresence == [ActiveFile |-> "", Cursor |-> "nil", Status |-> "idle"]

\* The bodies POST /api/presence carries.
LocalPresences ==
    { [ActiveFile |-> "src/app.ts", Cursor |-> [Line |-> 5, Column |-> 3],
       Status |-> "editing"],
      [ActiveFile |-> "", Cursor |-> "nil", Status |-> "away"] }

\* handleUpdatePresence: 400 for a body that does not decode, else the body
\* replaces s.localPresence; the advertisement is not touched.
handleUpdatePresence(valid, body) ==
    /\ IF ~valid
       THEN /\ lastOp' = [op |-> "UpdatePresence", status |-> 400]
            /\ UNCHANGED localPresence
       ELSE /\ localPresence' = body
            /\ lastOp' = [op |-> "UpdatePresence", status |-> 200]
    /\ UNCHANGED <<now, peers, sessVars, lockVars, discVars, presenceVars, startPc, editorVars>>

----------------------------------------------------------------------------
(* StartBroadcast as concurrent handler goroutines run it: Service takes no *)
(* lock around s.broadcasting and s.server.                                 *)

\* The goroutines serving POST /api/broadcast/start.
Handlers == {"h1", "h2"}

\* if s.broadcasting { return fmt.Errorf("already broadcasting") }
StartCheck(h) ==
    /\ startPc[h] = "idle"
    /\ IF broadcasting
       THEN /\ lastOp' = [op |-> "StartBroadcast", handler |-> h, register |-> "not called",
                          err |-> "already broadcasting"]
            /\ UNCHANGED startPc
       ELSE /\ startPc' = [startPc EXCEPT ![h] = "register"]
            /\ lastOp' = [op |-> "StartCheck", handler |-> h]
    /\ UNCHANGED <<now, peers, sessVars, lockVars, discVars, presenceVars, localPresence, editorVars>>

\* zeroconf.Register answers: an error is returned to the caller, else the
\* advertisement is on the network.
StartRegister(h, registerOK) ==
    /\ startPc[h] = "register"
    /\ IF registerOK
       THEN /\ registrations < MaxStarts
            /\ registrations' = registrations + 1
            /\ liveServers' = liveServers + 1
            /\ advertised' = VersionTXT
            /\ startPc' = [startPc EXCEPT ![h] = "assign"]
            /\ lastOp' = [op |-> "StartRegister", handler |-> h]
       ELSE /\ startPc' = [startPc EXCEPT ![h] = "idle"]
            /\ lastOp' = [op |-> "StartBroadcast", handler |-> h, register |-> "failed",
                          err |-> "failed to register service"]
            /\ UNCHANGED <<registrations, liveServers, advertised>>
    /\ UNCHANGED <<now, peers, sessVars, lockVars, localIPv4, localIPv6, server, broadcasting,
                   loop, entries, cycles, loopsStarted, shutdowns, loopsRunning, lifeVars,
                   presenceVars, localPresence, editorVars>>

\* s.server = server; s.broadcasting = true; s.updateLocalAddrs();
\* go s.startDiscovery(); return nil. The server s.server pointed at
\* before is no longer reachable.
StartAssign(h) ==
    /\ startPc[h] = "assign"
    /\ \E resolverOK \in BOOLEAN, net \in HostNetworks :
         LET addrs == updateLocalAddrs(net, localIPv4, localIPv6) IN
         /\ server' = "registered"
         /\ broadcasting' = TRUE
         /\ localIPv4' = addrs.ipv4
         /\ localIPv6' = addrs.ipv6
         /\ loop' = IF resolverOK /\ ~cancelled /\ loop = "off" THEN "select" ELSE loop
         /\ loopsStarted' = loopsStarted + 1
         /\ loopsRunning' = IF resolverOK /\ ~cancelled THEN loopsRunning + 1
                            ELSE loopsRunning
    /\ startPc' = [startPc EXCEPT ![h] = "idle"]
    /\ lastOp' = [op |-> "StartBroadcast", handler |-> h, register |-> "ok", err |-> ""]
    /\ UNCHANGED <<now, peers, sessVars, lockVars, entries, cycles, registrations, shutdowns,
                   liveServers, advertised, lifeVars, presenceVars, localPresence, editorVars>>

----------------------------------------------------------------------------
(* package sessions: Manager *)

ParticipantIDs == {"alice", "bob"}

FilePaths == {"src/app.ts"}

\* fmt.Sprintf("session-%d", time.Now().UnixNano())
FormatSessionID(t) == "session-" \o ToString(t)

\* The identifiers a join or leave request may name.
SessionIDs == {FormatSessionID(t) : t \in 0..MaxSessionTime}

\* The elements of a slice.
Elems(s) == {s[i] : i \in 1..Len(s)}

\* The index of the first element of s equal to x; 0 if there is none.
IndexOf(s, x) ==
    IF x \in Elems(s) THEN CHOOSE i \in 1..Len(s) : s[i] = x /\ \A j \in 1..(i - 1) : s[j] # x
    ELSE 0

\* append(s[:i], s[i+1:]...), i counted from 1
RemoveAt(s, i) == SubSeq(s, 1, i - 1) \o SubSeq(s, i + 1, Len(s))

\* Manager.Create storing a session without its initiator.
ManagerCreateNoInitiator(ss, id, filePath, initiator, t) ==
    MapAssign(ss, id, [ID |-> id, FilePath |-> filePath, Participants |-> <<>>,
                       Initiator |-> initiator, CreatedAt |-> t])

\* Manager.Create
ManagerCreate(ss, id, filePath, initiator, t) ==
    MapAssign(ss, id, [ID |-> id, FilePath |-> filePath, Participants |-> <<initiator>>,
                       Initiator |-> initiator, CreatedAt |-> t])

\* Manager.Get that finds every identifier.
ManagerGetAlways(ss, id) == [session |-> <<>>, ok |-> TRUE]

\* Manager.Get
ManagerGet(ss, id) ==
    IF MapHas(ss, id) THEN [session |-> MapGet(ss, id), ok |-> TRUE]
    ELSE [session |-> <<>>, ok |-> FALSE]

\* Manager.AddParticipant that opens the session when it does not exist.
ManagerAddParticipantCreating(ss, sessionID, participantID) ==
    IF ~MapHas(ss, sessionID)
    THEN [sessions |-> ManagerCreate(ss, sessionID, "", participantID, 0), ok |-> TRUE]
    ELSE LET session == MapGet(ss, sessionID) IN
         IF participantID \in Elems(session.Participants)
         THEN [sessions |-> ss, ok |-> TRUE]
         ELSE [sessions |-> MapAssign(ss, sessionID,
                   [session EXCEPT !.Participants = Append(@, participantID)]),
               ok |-> TRUE]

\* Manager.AddParticipant without the "already participant" loop.
ManagerAddParticipantNoCheck(ss, sessionID, participantID) ==
    IF ~MapHas(ss, sessionID)
    THEN [sessions |-> ss, ok |-> FALSE]
    ELSE LET session == MapGet(ss, sessionID) IN
         [sessions |-> MapAssign(ss, sessionID,
              [session EXCEPT !.Participants = Append(@, participantID)]),
          ok |-> TRUE]

\* Manager.AddParticipant that puts the new participant first.
ManagerAddParticipantPrepending(ss, sessionID, participantID) ==
    IF ~MapHas(ss, sessionID)
    THEN [sessions |-> ss, ok |-> FALSE]
    ELSE LET session == MapGet(ss, sessionID) IN
         IF participantID \in Elems(session.Participants)
         THEN [sessions |-> ss, ok |-> TRUE]
         ELSE [sessions |-> MapAssign(ss, sessionID,
                   [session EXCEPT !.Participants = <<participantID>> \o @]),
               ok |-> TRUE]

\* Manager.AddParticipant: the table afterwards and the returned bool
ManagerAddParticipant(ss, sessionID, participantID) ==
    IF ~MapHas(ss, sessionID)
    THEN [sessions |-> ss, ok |-> FALSE]
    ELSE LET session == MapGet(ss, sessionID) IN
         IF participantID \in Elems(session.Participants)
         THEN [sessions |-> ss, ok |-> TRUE]
         ELSE [sessions |-> MapAssign(ss, sessionID,
                   [session EXCEPT !.Participants = Append(@, participantID)]),
               ok |-> TRUE]

\* Manager.RemoveParticipant that deletes the session when the participant
\* is not in it.
ManagerRemoveParticipantDeleting(ss, sessionID, participantID) ==
    IF ~MapHas(ss, sessionID)
    THEN ss
    ELSE LET session == MapGet(ss, sessionID)
             i == IndexOf(session.Participants, participantID)
             rest == IF i = 0 THEN <<>>
                     ELSE RemoveAt(session.Participants, i)
         IN  IF Len(rest) = 0
             THEN MapDelete(ss, sessionID)
             ELSE MapAssign(ss, sessionID, [session EXCEPT !.Participants = rest])

\* Manager.RemoveParticipant
ManagerRemoveParticipant(ss, sessionID, participantID) ==
    IF ~MapHas(ss, sessionID)
    THEN ss
    ELSE LET session == MapGet(ss, sessionID)
             i == IndexOf(session.Participants, participantID)
             rest == IF i = 0 THEN session.Participants
                     ELSE RemoveAt(session.Participants, i)
         IN  IF Len(rest) = 0
             THEN MapDelete(ss, sessionID)
             ELSE MapAssign(ss, sessionID, [session EXCEPT !.Participants = rest])

\* Manager.GetAll: the sessions, in the map's iteration order (unspecified)
ManagerGetAll(ss) == {e.val : e \in ss}

\* Manager.Count
ManagerCount(ss) == MapLen(ss)

----------------------------------------------------------------------------
(* server.go: the session handlers. A body that does not decode is answered  *)
(* 400 before the manager is called.                                         *)

handleSessionCreate(valid, filePath, initiator) ==
    /\ MapLen(sessions) < MaxSessions
    /\ IF ~valid
       THEN /\ lastOp' = [op |-> "Create", status |-> 400]
            /\ UNCHANGED <<sessions, createdIDs>>
       ELSE LET sessionID == FormatSessionID(now) IN
            /\ sessions' = ManagerCreate(sessions, sessionID, filePath, initiator, now)
            /\ createdIDs' = createdIDs \cup {sessionID}
            /\ lastOp' = [op |-> "Create", status |-> 200, id |-> sessionID,
                          filePath |-> filePath, initiator |-> initiator,
                          fresh |-> sessionID \notin createdIDs,
                          replaced |-> MapHas(sessions, sessionID)]
    /\ UNCHANGED <<now, peers, lockVars, discVars, mgrLockVars, relayVars, presenceVars, restVars>>

handleSessionJoin(valid, sessionID, participantID) ==
    /\ IF ~valid
       THEN /\ lastOp' = [op |-> "Join", status |-> 400]
            /\ UNCHANGED sessions
       ELSE LET r == ManagerAddParticipant(sessions, sessionID, participantID) IN
            /\ sessions' = r.sessions
            /\ lastOp' = [op |-> "Join", status |-> IF r.ok THEN 200 ELSE 404,
                          id |-> sessionID, participant |-> participantID,
                          ok |-> r.ok]
    /\ UNCHANGED <<now, peers, createdIDs, lockVars, discVars, mgrLockVars, relayVars, presenceVars, restVars>>

handleSessionLeave(valid, sessionID, participantID) ==
    /\ IF ~valid
       THEN /\ lastOp' = [op |-> "Leave", status |-> 400]
            /\ UNCHANGED sessions
       ELSE /\ sessions' = ManagerRemoveParticipant(sessions, sessionID, participantID)
            /\ lastOp' = [op |-> "Leave", status |-> 200, id |-> sessionID,
                          participant |-> participantID]
    /\ UNCHANGED <<now, peers, createdIDs, lockVars, discVars, mgrLockVars, relayVars, presenceVars, restVars>>

handleGetSessions ==
    /\ lastOp' = [op |-> "GetSessions", status |-> 200, result |-> ManagerGetAll(sessions)]
    /\ UNCHANGED <<now, peers, sessVars, discVars, lockVars, presenceVars, restVars>>

\* handleYjsSync up to its session lookup (Manager.Get)
GetSession(sessionID) ==
    /\ lastOp' = [op |-> "GetSession", id |-> sessionID, result |-> ManagerGet(sessions, sessionID)]
    /\ UNCHANGED <<now, peers, sessVars, discVars, lockVars, presenceVars, restVars>>

\* handleGetStatus: activeSessions = Manager.Count()
SessionCount ==
    /\ lastOp' = [op |-> "SessionCount", result |-> ManagerCount(sessions)]
    /\ UNCHANGED <<now, peers, sessVars, discVars, lockVars, presenceVars, restVars>>

----------------------------------------------------------------------------
(* Manager.RemoveParticipant as other goroutines see it: m.mu is taken, the  *)
(* participant is spliced out of the slice, the emptied session is deleted   *)
(* and the deferred m.mu.Unlock() runs. Every other method of the Manager    *)
(* runs under m.mu as well, so it is one step taken while m.mu is free.      *)

\* m.mu.Lock() or m.mu.RLock() that does not wait for the writer.
ManagerLockNotWaiting(m) == TRUE

\* m.mu.Lock() and m.mu.RLock() return only when no writer holds m.mu.
ManagerLockAvailable(m) == m = "free"

\* A handler calls Manager.RemoveParticipant(sessionID, participantID).
RemoveCall(sessionID, participantID) ==
    /\ leaving.pc = "idle"
    /\ leaving' = [pc |-> "lock", id |-> sessionID, participant |-> participantID]
    /\ lastOp' = [op |-> "RemoveCall"]
    /\ UNCHANGED <<now, peers, sessions, createdIDs, managerMu, relayVars, lockVars, discVars, presenceVars, restVars>>

\* RemoveParticipant: m.mu.Lock() and the lookup; an unknown session returns
RemoveLock ==
    /\ leaving.pc = "lock"
    /\ ManagerLockAvailable(managerMu)
    /\ IF MapHas(sessions, leaving.id)
       THEN /\ managerMu' = "writer"
            /\ leaving' = [leaving EXCEPT !.pc = "splice"]
            /\ lastOp' = [op |-> "RemoveLock"]
       ELSE /\ leaving' = [pc |-> "idle"]
            /\ lastOp' = [op |-> "RemoveReturn", id |-> leaving.id, found |-> FALSE,
                          deleted |-> FALSE]
            /\ UNCHANGED managerMu
    /\ UNCHANGED <<now, peers, sessions, createdIDs, relayVars, lockVars, discVars, presenceVars, restVars>>

\* RemoveParticipant: the loop that splices the participant out
RemoveSplice ==
    /\ leaving.pc = "splice"
    /\ LET session == MapGet(sessions, leaving.id)
           i == IndexOf(session.Participants, leaving.participant)
       IN  sessions' = IF i = 0 THEN sessions
                       ELSE MapAssign(sessions, leaving.id,
                                [session EXCEPT !.Participants = RemoveAt(@, i)])
    /\ leaving' = [leaving EXCEPT !.pc = "check"]
    /\ lastOp' = [op |-> "RemoveSplice"]
    /\ UNCHANGED <<now, peers, createdIDs, managerMu, relayVars, lockVars, discVars, presenceVars, restVars>>

\* RemoveParticipant: the session with no participants left is deleted; the
\* deferred m.mu.Unlock()
RemoveCheck ==
    /\ leaving.pc = "check"
    /\ LET empty == Len(MapGet(sessions, leaving.id).Participants) = 0 IN
       /\ sessions' = IF empty THEN MapDelete(sessions, leaving.id) ELSE sessions
       /\ lastOp' = [op |-> "RemoveReturn", id |-> leaving.id, found |-> TRUE,
                     deleted |-> empty]
    /\ managerMu' = "free"
    /\ leaving' = [pc |-> "idle"]
    /\ UNCHANGED <<now, peers, createdIDs, relayVars, lockVars, discVars, presenceVars, restVars>>

----------------------------------------------------------------------------
(* server.go: handleYjsSync, one goroutine for each WebSocket request on    *)
(* /ws/sync/{sessionId}                                                     *)

\* The clients that dial the endpoint, one connection each.
ConnIDs == {"A", "B"}

\* The binary messages a client sends.
Payloads == {<<1, 2, 3>>, <<4, 5>>}

\* The participant whose editor each client belongs to.
ClientParticipant == [c \in ConnIDs |-> IF c = "A" THEN "alice" ELSE "bob"]

\* The identifiers the requests to the relay name: the one a create at the
\* initial clock reading produces, and one that no create produces.
RelaySessionIDs == {FormatSessionID(0), "session-unknown"}

\* A client that has not dialled. participant is the participant whose
\* editor dials; the request carries the session id alone, so the handler
\* never reads it.
NoConn == [state |-> "none", session |-> "", participant |-> "",
           inbox |-> <<>>, sent |-> <<>>, received |-> <<>>]

\* The messages the clients have written so far.
TotalMessages(cs) ==
    LET RECURSIVE Sum(_)
        Sum(S) == IF S = {} THEN 0
                  ELSE LET c == CHOOSE x \in S : TRUE
                       IN  Len(cs[c].inbox) + Len(cs[c].sent) + Sum(S \ {c})
    IN  Sum(DOMAIN cs)

\* The other connections open on the session of c.
OthersAttached(cs, c) ==
    {d \in DOMAIN cs \ {c} : cs[d].state = "open" /\ cs[d].session = cs[c].session}

\* handleYjsSync up to its read loop: 404 when Manager.Get does not find the
\* session, no connection when the upgrade fails, else the connection is open.
handleYjsSync(c, sessionID, upgradeOK) ==
    /\ conns[c].state = "none"
    /\ LET r == ManagerGet(sessions, sessionID) IN
       IF ~r.ok
       THEN /\ lastOp' = [op |-> "YjsSync", conn |-> c, id |-> sessionID,
                          status |-> 404, upgraded |-> FALSE]
            /\ UNCHANGED conns
       ELSE IF ~upgradeOK
       THEN /\ lastOp' = [op |-> "YjsSync", conn |-> c, id |-> sessionID,
                          status |-> 400, upgraded |-> FALSE]
            /\ UNCHANGED conns
       ELSE /\ conns' = [conns EXCEPT ![c] =
                             [NoConn EXCEPT !.state = "open", !.session = sessionID,
                                            !.participant = ClientParticipant[c]]]
            /\ lastOp' = [op |-> "YjsSync", conn |-> c, id |-> sessionID,
                          status |-> 101, upgraded |-> TRUE]
    /\ UNCHANGED <<now, peers, sessions, createdIDs, mgrLockVars, lockVars, discVars, presenceVars, restVars>>

\* A client writes a message on its connection.
ClientSend(c, payload) ==
    /\ conns[c].state = "open"
    /\ TotalMessages(conns) < MaxMessages
    /\ conns' = [conns EXCEPT ![c].inbox = Append(@, payload)]
    /\ lastOp' = [op |-> "ClientSend", conn |-> c]
    /\ UNCHANGED <<now, peers, sessions, createdIDs, mgrLockVars, lockVars, discVars, presenceVars, restVars>>

\* One iteration of the read loop: conn.ReadMessage() returns a message and
\* conn.WriteMessage writes it to the same connection; a write error ends
\* the loop and the deferred conn.Close() runs. sent records the message
\* and the other connections open on the session at that moment.
YjsSyncRelay(c, writeOK) ==
    /\ conns[c].state = "open"
    /\ conns[c].inbox # <<>>
    /\ LET message == Head(conns[c].inbox) IN
       conns' = [conns EXCEPT
                    ![c].inbox = Tail(@),
                    ![c].sent = Append(@, [payload |-> message,
                                           group |-> OthersAttached(conns, c)]),
                    ![c].received = IF writeOK
                                    THEN Append(@, [from |-> c, payload |-> message])
                                    ELSE @,
                    ![c].state = IF writeOK THEN @ ELSE "closed"]
    /\ lastOp' = [op |-> "YjsSyncRelay", conn |-> c, writeOK |-> writeOK]
    /\ UNCHANGED <<now, peers, sessions, createdIDs, mgrLockVars, lockVars, discVars, presenceVars, restVars>>

\* conn.ReadMessage() returns an error (the client went away): the loop
\* ends and the deferred conn.Close() runs.
YjsSyncReadError(c) ==
    /\ conns[c].state = "open"
    /\ conns' = [conns EXCEPT ![c].state = "closed"]
    /\ lastOp' = [op |-> "YjsSyncReadError", conn |-> c]
    /\ UNCHANGED <<now, peers, sessions, createdIDs, mgrLockVars, lockVars, discVars, presenceVars, restVars>>

----------------------------------------------------------------------------
(* main: the graceful shutdown *)

\* The HTTP listener accepts requests until main calls srv.Shutdown.
Serving == mainPc \in {"running", "signalled", "stopped"}

\* The process and its goroutines run until main returns.
Alive == mainPc # "exited"

\* main receives SIGINT or SIGTERM on quit.
Signal ==
    /\ mainPc = "running"
    /\ mainPc' = "signalled"
    /\ lastOp' = [op |-> "Signal"]
    /\ UNCHANGED <<now, peers, sessVars, lockVars, localIPv4, localIPv6, server, broadcasting,
                   loop, entries, cycles, ctlHist, cancelled, presenceVars, restVars>>

\* Service.Stop, which main calls after the signal: StopBroadcast, then
\* s.cancel().
Stop ==
    /\ mainPc = "signalled"
    /\ mainPc' = "stopped"
    /\ IF server # "nil"
       THEN /\ server' = "shutdown"
            /\ broadcasting' = FALSE
            /\ shutdowns' = shutdowns + 1
            /\ liveServers' = IF server = "registered" THEN liveServers - 1 ELSE liveServers
       ELSE UNCHANGED <<server, broadcasting, shutdowns, liveServers>>
    /\ cancelled' = TRUE
    /\ lastOp' = [op |-> "Stop", shutdown |-> server # "nil"]
    /\ UNCHANGED <<now, peers, sessVars, lockVars, localIPv4, localIPv6, loop, entries,
                   cycles, registrations, loopsStarted, loopsRunning, advertised, presenceVars, restVars>>

\* Server.Shutdown: httpServer.Shutdown closes the listener; it neither
\* closes nor waits for the hijacked connections of handleYjsSync.
Shutdown ==
    /\ mainPc = "stopped"
    /\ mainPc' = "shutdown"
    /\ lastOp' = [op |-> "Shutdown"]
    /\ UNCHANGED <<now, peers, sessVars, lockVars, localIPv4, localIPv6, server, broadcasting,
                   loop, entries, cycles, ctlHist, cancelled, presenceVars, restVars>>

\* main returns: the process ends, and with it the goroutine of the
\* discovery loop and the sockets of the connections. Nothing calls
\* s.server.Shutdown() here.
mainReturn ==
    /\ mainPc = "shutdown"
    /\ mainPc' = "exited"
    /\ conns' = [c \in ConnIDs |->
                    IF conns[c].state = "open" THEN [conns[c] EXCEPT !.state = "closed"]
                    ELSE conns[c]]
    /\ loop' = IF loop = "off" THEN "off" ELSE "stopped"
    /\ entries' = <<>>
    /\ loopsRunning' = 0
    /\ lastOp' = [op |-> "mainReturn"]
    /\ UNCHANGED <<now, peers, sessions, createdIDs, mgrLockVars, lockVars, localIPv4,
                   localIPv6, server, broadcasting, cycles, registrations,
                   loopsStarted, shutdowns, liveServers, advertised, cancelled, presenceVars, restVars>>

\* The network and the entries of the shutdown scenarios.
LifecycleNetworks == {n \in HostNetworks : n.err}

LifecycleEntries == {entry \in ServiceEntries : entry.Instance # deviceName}

LifecycleConns == {"A"}

----------------------------------------------------------------------------
(* extension: PresenceManager *)

idleThreshold == 30000

awayThreshold == 300000

\* The pauses of the extension host between two events, in ms.
PresencePauses == {1, 29999, 270000}

\* The editors an event can carry: none, a file whose extension is in the
\* configured zeropr.fileWhitelist, a file whose extension is not.
Editors ==
    { [defined |-> FALSE, path |-> "", whitelisted |-> FALSE, line |-> 0, character |-> 0],
      [defined |-> TRUE, path |-> "main.go", whitelisted |-> TRUE, line |-> 4, character |-> 2],
      [defined |-> TRUE, path |-> "notes.txt", whitelisted |-> FALSE, line |-> 0, character |-> 0] }

NullCursor == [line |-> 0, column |-> 0]

\* The fields of a PresenceManager constructed at time t; "" is null,
\* and cursor lines and columns count from 1.
NewPresenceManager(t) ==
    [currentFile |-> "", currentCursor |-> NullCursor, currentStatus |-> "idle",
     lastActivity |-> t]

\* updateStatus at time t
updateStatus(p, t) ==
    LET timeSinceActivity == t - p.lastActivity IN
    [p EXCEPT !.currentStatus = IF timeSinceActivity > awayThreshold THEN "away"
                                ELSE IF timeSinceActivity > idleThreshold THEN "idle"
                                ELSE "editing"]

\* The extension host's clock advances.
PresenceWait(d) ==
    /\ waits < MaxWaits
    /\ waits' = waits + 1
    /\ dateNow' = dateNow + d
    /\ lastOp' = [op |-> "PresenceWait"]
    /\ UNCHANGED <<now, peers, sessVars, lockVars, discVars, presence, restVars>>

\* The setInterval callback of startPresenceUpdates: updateStatus, then
\* sendPresenceUpdate with the fields as they are. The callback runs when
\* the event loop gets to it, so at any reading of the clock.
PresenceTimer ==
    LET p == updateStatus(presence, dateNow) IN
    /\ presence' = p
    /\ lastOp' = [op |-> "PresenceTimer", was |-> presence.currentStatus,
                  timeSinceActivity |-> dateNow - presence.lastActivity,
                  sent |-> [activeFile |-> p.currentFile, cursor |-> p.currentCursor,
                            status |-> p.currentStatus]]
    /\ UNCHANGED <<now, peers, sessVars, lockVars, discVars, dateNow, waits, restVars>>

\* updateActiveFile (onDidChangeActiveTextEditor)
updateActiveFile(editor) ==
    /\ presence' =
         IF editor.defined /\ editor.whitelisted
         THEN [presence EXCEPT !.lastActivity = dateNow,
                               !.currentFile = editor.path,
                               !.currentCursor = [line |-> editor.line + 1,
                                                  column |-> editor.character + 1]]
         ELSE [presence EXCEPT !.lastActivity = dateNow,
                               !.currentFile = "",
                               !.currentCursor = NullCursor]
    /\ lastOp' = [op |-> "updateActiveFile", was |-> presence.currentStatus]
    /\ UNCHANGED <<now, peers, sessVars, lockVars, discVars, dateNow, waits, restVars>>

\* updateCursorPosition that stamps lastActivity after the check of
\* currentFile.
updateCursorPositionLateStamp(editor) ==
    /\ editor.defined
    /\ presence' =
         IF presence.currentFile = ""
         THEN presence
         ELSE [presence EXCEPT !.lastActivity = dateNow,
                               !.currentCursor = [line |-> editor.line + 1,
                                                  column |-> editor.character + 1]]
    /\ lastOp' = [op |-> "updateCursorPosition", was |-> presence.currentStatus]
    /\ UNCHANGED <<now, peers, sessVars, lockVars, discVars, dateNow, waits, restVars>>

\* updateCursorPosition (onDidChangeTextEditorSelection); the editor's
\* line and character stand for selection.active.
updateCursorPosition(editor) ==
    /\ editor.defined
    /\ presence' =
         IF presence.currentFile = ""
         THEN [presence EXCEPT !.lastActivity = dateNow]
         ELSE [presence EXCEPT !.lastActivity = dateNow,
                               !.currentCursor = [line |-> editor.line + 1,
                                                  column |-> editor.character + 1]]
    /\ lastOp' = [op |-> "updateCursorPosition", was |-> presence.currentStatus]
    /\ UNCHANGED <<now, peers, sessVars, lockVars, discVars, dateNow, waits, restVars>>

----------------------------------------------------------------------------
(* extension: AgentClient, each request served by the agent's handler *)

\* The extension hosts that talk to one agent.
Clients == {"ext1", "ext2"}

\* The participant id every AgentClient request carries.
LocalUser == "local-user"

\* AgentClient.createSession: POST /api/session/create with the initiator
\* 'local-user'; the response carries the session id.
createSession(c, filePath) ==
    /\ MapLen(sessions) < MaxSessions
    /\ LET sessionID == FormatSessionID(now) IN
       /\ sessions' = ManagerCreate(sessions, sessionID, filePath, LocalUser, now)
       /\ createdIDs' = createdIDs \cup {sessionID}
       /\ clientIn' = [clientIn EXCEPT ![c] = @ \cup {sessionID}]
       /\ lastOp' = [op |-> "createSession", client |-> c, id |-> sessionID]
    /\ UNCHANGED <<now, peers, mgrLockVars, relayVars, lockVars, discVars, presenceVars,
                   agentVars, activeSession, calls>>

\* AgentClient.joinSession: POST /api/session/join with the participant id
\* 'local-user'; a 404 makes the request throw.
joinSession(c, sessionID) ==
    /\ LET r == ManagerAddParticipant(sessions, sessionID, LocalUser) IN
       /\ sessions' = r.sessions
       /\ clientIn' = IF r.ok THEN [clientIn EXCEPT ![c] = @ \cup {sessionID}] ELSE clientIn
       /\ lastOp' = [op |-> "joinSession", client |-> c, id |-> sessionID, ok |-> r.ok]
    /\ UNCHANGED <<now, peers, createdIDs, mgrLockVars, relayVars, lockVars, discVars,
                   presenceVars, agentVars, activeSession, calls>>

\* AgentClient.leaveSession: POST /api/session/leave with the participant
\* id 'local-user'; a client leaves a session it is in (stopCoEdit passes
\* the id of its active session).
leaveSession(c, sessionID) ==
    /\ sessionID \in clientIn[c]
    /\ sessions' = ManagerRemoveParticipant(sessions, sessionID, LocalUser)
    /\ clientIn' = [clientIn EXCEPT ![c] = @ \ {sessionID}]
    /\ lastOp' = [op |-> "leaveSession", client |-> c, id |-> sessionID]
    /\ UNCHANGED <<now, peers, createdIDs, mgrLockVars, relayVars, lockVars, discVars,
                   presenceVars, agentVars, activeSession, calls>>

----------------------------------------------------------------------------
(* extension: SessionManager. An async method runs up to its await, the    *)
(* agent serves the request or the request fails, and the method resumes.   *)

\* The invocations of the zeropr.startCoEdit and zeropr.stopCoEdit commands.
Commands == {"k1", "k2"}

\* activeSession = null
NullSession == [sessionId |-> "", filePath |-> "", destroyed |-> FALSE]

\* A command that is not running; response is "none" while the request is
\* in flight, "ok" or "failed" once it is settled.
IdleCall == [pc |-> "idle", sessionId |-> "", filePath |-> "", response |-> "none"]

\* The calls that are between their request and its continuation.
Awaiting(cs, pcs) == {k \in Commands : cs[k].pc \in pcs}

editorFrame == <<now, peers, mgrLockVars, relayVars, lockVars, discVars, presenceVars,
                 agentVars, clientIn>>

\* startCoEdit up to "await this.agentClient.createSession(filePath)": the
\* warning and return when activeSession is set.
startCoEdit(k, filePath) ==
    /\ calls[k].pc = "idle"
    /\ IF activeSession # NullSession
       THEN /\ lastOp' = [op |-> "startCoEdit", call |-> k, outcome |-> "already in session"]
            /\ UNCHANGED calls
       ELSE /\ calls' = [calls EXCEPT ![k] = [IdleCall EXCEPT !.pc = "awaitCreate",
                                                              !.filePath = filePath]]
            /\ lastOp' = [op |-> "startCoEdit", call |-> k, outcome |-> "requested",
                          awaiting |-> Cardinality(Awaiting(calls, {"awaitCreate"}))]
    /\ UNCHANGED <<sessions, createdIDs, activeSession, editorFrame>>

\* The agent serves the POST /api/session/create of call k, or the request
\* fails (no agent, timeout).
startCoEditRequest(k, served) ==
    /\ calls[k].pc = "awaitCreate"
    /\ calls[k].response = "none"
    /\ IF served
       THEN LET sessionID == FormatSessionID(now) IN
            /\ MapLen(sessions) < MaxSessions
            /\ sessions' = ManagerCreate(sessions, sessionID, calls[k].filePath, LocalUser, now)
            /\ createdIDs' = createdIDs \cup {sessionID}
            /\ calls' = [calls EXCEPT ![k].response = "ok", ![k].sessionId = sessionID]
       ELSE /\ calls' = [calls EXCEPT ![k].response = "failed"]
            /\ UNCHANGED <<sessions, createdIDs>>
    /\ lastOp' = [op |-> "createRequest", call |-> k, served |-> served,
                  active |-> activeSession # NullSession,
                  others |-> Cardinality({j \in Commands \ {k} :
                                 calls[j].pc = "awaitCreate" /\ calls[j].response = "ok"})]
    /\ UNCHANGED <<activeSession, editorFrame>>

\* startCoEdit after the await: the provider is connected and
\* activeSession is assigned; a failed request is caught and reported.
startCoEditResume(k) ==
    /\ calls[k].pc = "awaitCreate"
    /\ calls[k].response # "none"
    /\ IF calls[k].response = "ok"
       THEN /\ activeSession' = [sessionId |-> calls[k].sessionId,
                                 filePath |-> calls[k].filePath, destroyed |-> FALSE]
            /\ lastOp' = [op |-> "startCoEdit", call |-> k, outcome |-> "started",
                          overwrote |-> activeSession # NullSession]
       ELSE /\ lastOp' = [op |-> "startCoEdit", call |-> k, outcome |-> "failed"]
            /\ UNCHANGED activeSession
    /\ calls' = [calls EXCEPT ![k] = IdleCall]
    /\ UNCHANGED <<sessions, createdIDs, editorFrame>>

\* stopCoEdit up to "await this.agentClient.leaveSession(...)": return when
\* activeSession is null, else provider.destroy() and disposable.dispose().
stopCoEdit(k) ==
    /\ calls[k].pc = "idle"
    /\ IF activeSession = NullSession
       THEN /\ lastOp' = [op |-> "stopCoEdit", call |-> k, outcome |-> "returned",
                          hadSession |-> FALSE, sent |-> FALSE]
            /\ UNCHANGED <<calls, activeSession>>
       ELSE /\ activeSession' = [activeSession EXCEPT !.destroyed = TRUE]
            /\ calls' = [calls EXCEPT ![k] = [IdleCall EXCEPT
                                                 !.pc = "awaitLeave",
                                                 !.sessionId = activeSession.sessionId]]
            /\ lastOp' = [op |-> "stopCoEditCall", call |-> k]
    /\ UNCHANGED <<sessions, createdIDs, editorFrame>>

\* The agent serves the POST /api/session/leave of call k, or the request
\* fails.
stopCoEditRequest(k, served) ==
    /\ calls[k].pc = "awaitLeave"
    /\ calls[k].response = "none"
    /\ IF served
       THEN /\ sessions' = ManagerRemoveParticipant(sessions, calls[k].sessionId, LocalUser)
            /\ calls' = [calls EXCEPT ![k].response = "ok"]
       ELSE /\ calls' = [calls EXCEPT ![k].response = "failed"]
            /\ UNCHANGED sessions
    /\ lastOp' = [op |-> "leaveRequest", call |-> k, served |-> served]
    /\ UNCHANGED <<createdIDs, activeSession, editorFrame>>

\* stopCoEdit after the await: a failed request throws out of stopCoEdit;
\* otherwise this.activeSession.filePath is read, which throws when
\* activeSession has become null, and activeSession is set to null.
stopCoEditResume(k) ==
    /\ calls[k].pc = "awaitLeave"
    /\ calls[k].response # "none"
    /\ IF calls[k].response = "ok" /\ activeSession # NullSession
       THEN /\ activeSession' = NullSession
            /\ lastOp' = [op |-> "stopCoEdit", call |-> k, outcome |-> "returned",
                          hadSession |-> TRUE, sent |-> TRUE]
       ELSE /\ lastOp' = [op |-> "stopCoEdit", call |-> k, outcome |-> "thrown",
                          hadSession |-> TRUE, sent |-> TRUE]
            /\ UNCHANGED activeSession
    /\ calls' = [calls EXCEPT ![k] = IdleCall]
    /\ UNCHANGED <<sessions, createdIDs, editorFrame>>

\* isInSession
isInSession(a) == a # NullSession

----------------------------------------------------------------------------
Init ==
    /\ now = 0
    /\ peers = {}
    /\ sessions = {}
    /\ createdIDs = {}
    /\ mu = "free"
    /\ pc = [g \in Goroutines |-> "idle"]
    /\ arg = [g \in Goroutines |-> <<>>]
    /\ cleanupNow = 0
    /\ todo = {}
    /\ passAdded = {}
    /\ localIPv4 = {}
    /\ localIPv6 = {}
    /\ server = "nil"
    /\ broadcasting = FALSE
    /\ loop = "off"
    /\ entries = <<>>
    /\ cycles = 0
    /\ registrations = 0
    /\ loopsStarted = 0
    /\ shutdowns = 0
    /\ loopsRunning = 0
    /\ liveServers = 0
    /\ advertised = <<>>
    /\ localPresence = NewLocalPresence
    /\ startPc = [h \in Handlers |-> "idle"]
    /\ clientIn = [c \in Clients |-> {}]
    /\ activeSession = NullSession
    /\ calls = [k \in Commands |-> IdleCall]
    /\ managerMu = "free"
    /\ leaving = [pc |-> "idle"]
    /\ conns = [c \in ConnIDs |-> NoConn]
    /\ cancelled = FALSE
    /\ mainPc = "running"
    /\ dateNow = 0
    /\ waits = 0
    /\ presence = NewPresenceManager(0)
    /\ lastOp = [op |-> "init"]

Next ==
    \/ Tick
    \/ \E peer \in CallerPeers : Add(peer)
    \/ \E id \in PeerIDs : Get(id)
    \/ GetAll
    \/ \E id \in PeerIDs : Remove(id)
    \/ \E timeout \in 0..MaxTTL : Cleanup(timeout)
    \/ Count

\* The registry under any sequence of calls.
Spec == Init /\ [][Next]_vars

\* Time passes while goroutines run.
LockTick ==
    /\ now < MaxLockTime
    /\ now' = now + 1
    /\ lastOp' = [op |-> "Tick"]
    /\ UNCHANGED <<peers, sessVars, discVars, lockVars, presenceVars, restVars>>

NextLock ==
    \/ LockTick
    \/ \E g \in Adders, peer \in LockPeers : AddCall(g, peer)
    \/ \E g \in Adders : AddLock(g)
    \/ \E g \in Adders : AddStore(g)
    \/ \E timeout \in 0..MaxLockTTL : CleanupCall(timeout)
    \/ CleanupLock
    \/ \E id \in LockPeerIDs : CleanupVisit(id)
    \/ CleanupReturn

\* Registry.Add and Registry.Cleanup called from concurrent goroutines.
SpecLock == Init /\ [][NextLock]_vars

NextDiscovery ==
    \/ StartBroadcast
    \/ \E net \in HostNetworks : LoopSelect(net)
    \/ \E entry \in ServiceEntries : BrowseSend(entry)
    \/ \E timedOut \in BOOLEAN : BrowseReturn(timedOut)
    \/ Consume
    \/ Drain
    \/ LoopCleanup
    \/ LoopSleep

\* The discovery service from StartBroadcast on.
SpecDiscovery == Init /\ [][NextDiscovery]_vars

NextBroadcast ==
    \/ StartBroadcast
    \/ StopBroadcast
    \/ IsBroadcasting

\* The broadcast controller under any sequence of start and stop requests;
\* the loops it launches are counted, their cycles are left to SpecDiscovery.
SpecBroadcast == Init /\ [][NextBroadcast]_vars

NextAdvertise ==
    \/ \E valid \in BOOLEAN, body \in LocalPresences : handleUpdatePresence(valid, body)
    \/ StartBroadcast
    \/ StopBroadcast
    \/ IsBroadcasting

\* The controller and the presence handler: what the advertisement says
\* about this host.
SpecAdvertise == Init /\ [][NextAdvertise]_vars

NextBroadcastRace ==
    \/ \E h \in Handlers : StartCheck(h)
    \/ \E h \in Handlers, registerOK \in BOOLEAN : StartRegister(h, registerOK)
    \/ \E h \in Handlers : StartAssign(h)
    \/ StopBroadcast
    \/ IsBroadcasting

\* The controller under concurrent start and stop requests.
SpecBroadcastRace == Init /\ [][NextBroadcastRace]_vars

NextLifecycle ==
    \/ Serving /\ StartBroadcast
    \/ Serving /\ StopBroadcast
    \/ Alive /\ \E net \in LifecycleNetworks : LoopSelect(net)
    \/ Alive /\ \E entry \in LifecycleEntries : BrowseSend(entry)
    \/ Alive /\ \E timedOut \in BOOLEAN : BrowseReturn(timedOut)
    \/ Alive /\ Consume
    \/ Alive /\ Drain
    \/ Alive /\ LoopCleanup
    \/ Alive /\ LoopSleep
    \/ Alive /\ LoopExit
    \/ Alive /\ OtherLoopExit
    \/ Serving /\ createdIDs = {} /\ now = 0 /\ handleSessionCreate(TRUE, "src/app.ts", "alice")
    \/ Serving /\ \E c \in LifecycleConns, e \in sessions : handleYjsSync(c, e.key, TRUE)
    \/ Alive /\ \E c \in LifecycleConns : YjsSyncReadError(c)
    \/ Signal
    \/ Stop
    \/ Shutdown
    \/ mainReturn

\* The agent from its start to its exit: the controller's requests, the
\* discovery loop, the relay connections and main's shutdown sequence.
SpecLifecycle == Init /\ [][NextLifecycle]_vars

\* The same, main and the discovery loop taking the steps they can take.
SpecLifecycleFair ==
    /\ SpecLifecycle
    /\ WF_vars(Stop)
    /\ WF_vars(Shutdown)
    /\ WF_vars(mainReturn)
    /\ WF_vars(Alive /\ LoopExit)
    /\ WF_vars(Alive /\ \E timedOut \in BOOLEAN : BrowseReturn(timedOut))
    /\ WF_vars(Alive /\ Consume)
    /\ WF_vars(Alive /\ LoopCleanup)
    /\ WF_vars(Alive /\ LoopSleep)

NextPresence ==
    \/ \E d \in PresencePauses : PresenceWait(d)
    \/ PresenceTimer
    \/ \E editor \in Editors : updateActiveFile(editor)
    \/ \E editor \in Editors : updateCursorPosition(editor)

\* The extension's presence manager under any sequence of editor events
\* and timer callbacks.
SpecPresence == Init /\ [][NextPresence]_vars

\* Time passes between two requests.
SessionTick ==
    /\ now < MaxSessionTime
    /\ now' = now + 1
    /\ lastOp' = [op |-> "Tick"]
    /\ UNCHANGED <<peers, sessVars, discVars, lockVars, presenceVars, restVars>>

NextSessions ==
    \/ SessionTick
    \/ \E valid \in BOOLEAN, filePath \in FilePaths, initiator \in ParticipantIDs :
           handleSessionCreate(valid, filePath, initiator)
    \/ \E valid \in BOOLEAN, sessionID \in SessionIDs, participantID \in ParticipantIDs :
           handleSessionJoin(valid, sessionID, participantID)
    \/ \E valid \in BOOLEAN, sessionID \in SessionIDs, participantID \in ParticipantIDs :
           handleSessionLeave(valid, sessionID, participantID)
    \/ handleGetSessions
    \/ \E sessionID \in SessionIDs : GetSession(sessionID)
    \/ SessionCount

\* The session manager under any sequence of requests.
SpecSessions == Init /\ [][NextSessions]_vars

NextClients ==
    \/ SessionTick
    \/ \E c \in Clients, filePath \in FilePaths : createSession(c, filePath)
    \/ \E c \in Clients, sessionID \in SessionIDs : joinSession(c, sessionID)
    \/ \E c \in Clients, sessionID \in SessionIDs : leaveSession(c, sessionID)

\* Extension hosts creating, joining and leaving sessions on one agent.
SpecClients == Init /\ [][NextClients]_vars

NextEditor ==
    \/ SessionTick
    \/ \E k \in Commands, filePath \in FilePaths : startCoEdit(k, filePath)
    \/ \E k \in Commands, served \in BOOLEAN : startCoEditRequest(k, served)
    \/ \E k \in Commands : startCoEditResume(k)
    \/ \E k \in Commands : stopCoEdit(k)
    \/ \E k \in Commands, served \in BOOLEAN : stopCoEditRequest(k, served)
    \/ \E k \in Commands : stopCoEditResume(k)

\* One extension host's session manager under any interleaving of its
\* co-edit commands.
SpecEditor == Init /\ [][NextEditor]_vars

NextSessionLock ==
    \/ \E filePath \in FilePaths, initiator \in ParticipantIDs :
           ManagerLockAvailable(managerMu) /\ handleSessionCreate(TRUE, filePath, initiator)
    \/ \E sessionID \in SessionIDs, participantID \in ParticipantIDs :
           ManagerLockAvailable(managerMu) /\ handleSessionJoin(TRUE, sessionID, participantID)
    \/ ManagerLockAvailable(managerMu) /\ handleGetSessions
    \/ \E sessionID \in SessionIDs : ManagerLockAvailable(managerMu) /\ GetSession(sessionID)
    \/ ManagerLockAvailable(managerMu) /\ SessionCount
    \/ \E sessionID \in SessionIDs, participantID \in ParticipantIDs :
           RemoveCall(sessionID, participantID)
    \/ RemoveLock
    \/ RemoveSplice
    \/ RemoveCheck

\* The session manager called from concurrent handlers.
SpecSessionLock == Init /\ [][NextSessionLock]_vars

NextRelay ==
    \/ \E filePath \in FilePaths, initiator \in ParticipantIDs :
           handleSessionCreate(TRUE, filePath, initiator)
    \/ \E sessionID \in RelaySessionIDs, participantID \in ParticipantIDs :
           handleSessionJoin(TRUE, sessionID, participantID)
    \/ \E sessionID \in RelaySessionIDs, participantID \in ParticipantIDs :
           handleSessionLeave(TRUE, sessionID, participantID)
    \/ \E c \in ConnIDs, sessionID \in RelaySessionIDs, upgradeOK \in BOOLEAN :
           handleYjsSync(c, sessionID, upgradeOK)
    \/ \E c \in ConnIDs, payload \in Payloads : ClientSend(c, payload)
    \/ \E c \in ConnIDs, writeOK \in BOOLEAN : YjsSyncRelay(c, writeOK)
    \/ \E c \in ConnIDs : YjsSyncReadError(c)

\* The sessions and the connections of their clients.
SpecRelay == Init /\ [][NextRelay]_vars

\* The same, each handler goroutine running as long as it has a message to
\* relay; clients send, disconnect and leave when they choose.
SpecRelayFair ==
    SpecRelay /\ \A c \in ConnIDs : WF_vars(\E writeOK \in BOOLEAN : YjsSyncRelay(c, writeOK))

----------------------------------------------------------------------------
(* Properties of the registry, checked under Spec *)

\* C1: Registry.Add of an identifier leaves exactly one entry under that
\* identifier, and an Add of an identifier the registry already holds (the
\* second upsert) leaves Count as it was.
C1_UpsertTwiceOneEntry ==
    lastOp.op = "Add" =>
        /\ Cardinality(EntriesFor(peers, lastOp.peer.ID)) = 1
        /\ MapHas(lastOp.pre, lastOp.peer.ID) =>
               RegistryCount(peers) = RegistryCount(lastOp.pre)

\* A second upsert of an identifier, with other peers in the registry.
C1_Witness ==
    /\ lastOp.op = "Add"
    /\ MapHas(lastOp.pre, lastOp.peer.ID)
    /\ MapGet(lastOp.pre, lastOp.peer.ID) # MapGet(peers, lastOp.peer.ID)
    /\ RegistryCount(peers) = 2

\* C2 as stated: after Cleanup(timeout) a peer whose age is at least the
\* timeout is absent, and a peer younger than the timeout is present.
C2_EvictAtTTL ==
    lastOp.op = "Cleanup" =>
        \A e \in lastOp.pre :
            /\ now - e.val.LastSeen >= lastOp.timeout => ~MapHas(peers, e.key)
            /\ now - e.val.LastSeen < lastOp.timeout => e \in peers

\* C2 amended: after Cleanup(timeout) a peer whose age exceeds the timeout is
\* absent, and a peer whose age is at most the timeout (equal included) is
\* present and unchanged.
C2_EvictStrictlyOlder ==
    lastOp.op = "Cleanup" =>
        \A e \in lastOp.pre :
            /\ now - e.val.LastSeen > lastOp.timeout => ~MapHas(peers, e.key)
            /\ now - e.val.LastSeen <= lastOp.timeout => e \in peers

\* One Cleanup that evicts a peer older than the timeout and keeps a peer
\* whose age is exactly the timeout.
C2_Witness ==
    /\ lastOp.op = "Cleanup"
    /\ lastOp.timeout > 0
    /\ \E e \in lastOp.pre : now - e.val.LastSeen > lastOp.timeout /\ ~MapHas(peers, e.key)
    /\ \E e \in lastOp.pre : now - e.val.LastSeen = lastOp.timeout /\ e \in peers

\* C3: after Registry.Add the stored LastSeen is the clock reading of the
\* call, whatever LastSeen the caller wrote, and it is not below the
\* LastSeen the identifier had before.
C3_LastSeenStampedByRegistry ==
    lastOp.op = "Add" =>
        /\ MapHas(peers, lastOp.peer.ID)
        /\ \A e \in EntriesFor(peers, lastOp.peer.ID) : e.val.LastSeen = now
        /\ \A e \in EntriesFor(lastOp.pre, lastOp.peer.ID) :
               e.val.LastSeen <= MapGet(peers, lastOp.peer.ID).LastSeen

\* A re-upsert whose caller wrote a LastSeen older than the stored one.
C3_Witness ==
    /\ lastOp.op = "Add"
    /\ MapHas(lastOp.pre, lastOp.peer.ID)
    /\ lastOp.peer.LastSeen < MapGet(lastOp.pre, lastOp.peer.ID).LastSeen
    /\ MapGet(lastOp.pre, lastOp.peer.ID).LastSeen < now

----------------------------------------------------------------------------
(* Properties of the registry's locking, checked under SpecLock *)

\* C4: Add and Cleanup never hold r.mu together, so no entry is stored
\* while a Cleanup pass is ranging over the map; and every entry a pass
\* deletes was not stored during that pass and is stale by the LastSeen it
\* has when it is deleted.
C4_EvictExcludesUpsert ==
    /\ \A g \in Adders : ~(InCriticalSection(g) /\ InCriticalSection(Cleaner))
    /\ \A g, h \in Adders : (g # h) => ~(InCriticalSection(g) /\ InCriticalSection(h))
    /\ pc[Cleaner] = "range" => passAdded = {}
    /\ (lastOp.op = "CleanupVisit" /\ lastOp.deleted) =>
           /\ ~lastOp.addedInPass
           /\ cleanupNow - lastOp.lastSeen > arg[Cleaner].timeout

\* A pass deletes the stale entry of an identifier while an Add of that
\* identifier, called during the pass, waits for the lock.
C4_Witness ==
    /\ pc[Cleaner] = "range"
    /\ lastOp.op = "CleanupVisit"
    /\ lastOp.deleted
    /\ \E g \in Adders :
           /\ pc[g] = "lock"
           /\ arg[g].duringPass
           /\ arg[g].peer.ID = lastOp.id

----------------------------------------------------------------------------
(* Properties of the discovery loop, checked under SpecDiscovery *)

\* The entry names this host: its name and port are the advertised ones and
\* one of its addresses is in the local address set.
MatchesLocalIdentity(entry, ipv4, ipv6) ==
    /\ entry.Instance = deviceName
    /\ entry.Port = port
    /\ (Elems(entry.AddrIPv4) \cup Elems(entry.AddrIPv6)) \cap (ipv4 \cup ipv6) # {}

\* The identifier buildPeer gives the peer of an entry that has an address.
EntryPeerID(entry) == buildPeer(entry, 0).peer.ID

\* C5: an entry the consumer receives that carries this host's name and
\* port and an address of the current local address set is not added to the
\* registry, whatever the local address set has been refreshed to.
C5_SelfNeverAdded ==
    [][(lastOp'.op = "Consume" /\
        MatchesLocalIdentity(lastOp'.entry, localIPv4, localIPv6)) =>
           /\ ~lastOp'.added
           /\ peers' = peers]_vars

\* In the second cycle, after a refresh to another address set, the
\* consumer skips an entry that an earlier cycle had added as a peer.
C5_Witness ==
    /\ lastOp.op = "Consume"
    /\ cycles >= 2
    /\ MatchesLocalIdentity(lastOp.entry, localIPv4, localIPv6)
    /\ ~lastOp.added
    /\ MapHas(peers, EntryPeerID(lastOp.entry))

----------------------------------------------------------------------------
(* Properties of the session manager, checked under SpecSessions *)

\* C7: a successful create on an empty table, followed by GetAll, yields
\* exactly one session: the given file path and initiator, participants
\* exactly [initiator].
C7_CreateThenGetAll ==
    [][(lastOp'.op = "Create" /\ lastOp'.status = 200 /\ sessions = {}) =>
           ManagerGetAll(sessions') =
               {[ID |-> lastOp'.id, FilePath |-> lastOp'.filePath,
                 Participants |-> <<lastOp'.initiator>>,
                 Initiator |-> lastOp'.initiator, CreatedAt |-> now]}]_vars

\* A create has just made the table's only session.
C7_Witness ==
    /\ lastOp.op = "Create"
    /\ lastOp.status = 200
    /\ ~lastOp.replaced
    /\ ManagerCount(sessions) = 1

\* C8: every create yields an identifier no earlier create has produced,
\* and replaces no session of the table.
C8_FreshSessionID ==
    (lastOp.op = "Create" /\ lastOp.status = 200) =>
        lastOp.fresh /\ ~lastOp.replaced

\* C9: a join that names an identifier not in the table returns false
\* (404) and leaves the table unchanged.
C9_JoinUnknownSession ==
    [][(lastOp'.op = "Join" /\ lastOp'.status # 400 /\ ~MapHas(sessions, lastOp'.id)) =>
           /\ lastOp'.ok = FALSE
           /\ lastOp'.status = 404
           /\ sessions' = sessions]_vars

\* A join was refused while the table holds a session.
C9_Witness ==
    /\ lastOp.op = "Join"
    /\ lastOp.status = 404
    /\ ~MapHas(sessions, lastOp.id)
    /\ sessions # {}

\* C10: a join by a participant already in the session succeeds and leaves
\* the table unchanged, and after any successful join a second join of the
\* same participant changes nothing.
C10_JoinIdempotent ==
    [][(lastOp'.op = "Join" /\ lastOp'.status # 400 /\ MapHas(sessions, lastOp'.id)) =>
           /\ lastOp'.ok
           /\ lastOp'.participant \in Elems(MapGet(sessions, lastOp'.id).Participants) =>
                  sessions' = sessions
           /\ ManagerAddParticipant(sessions', lastOp'.id, lastOp'.participant) =
                  [sessions |-> sessions', ok |-> TRUE]]_vars

\* A successful join by the second of two participants of a session.
C10_Witness ==
    /\ lastOp.op = "Join"
    /\ lastOp.status = 200
    /\ MapHas(sessions, lastOp.id)
    /\ Len(MapGet(sessions, lastOp.id).Participants) = 2
    /\ MapGet(sessions, lastOp.id).Participants[2] = lastOp.participant

----------------------------------------------------------------------------
(* Properties of the session manager's locking, checked under SpecSessionLock *)

----------------------------------------------------------------------------
(* Properties of the session handlers, checked under SpecSessions *)

\* C12 as stated: a leave that names an identifier not in the table is
\* answered with the not-found error (404) and leaves the table unchanged.
C12_LeaveUnknownSession ==
    [][(lastOp'.op = "Leave" /\ lastOp'.status # 400 /\ ~MapHas(sessions, lastOp'.id)) =>
           /\ lastOp'.status = 404
           /\ sessions' = sessions]_vars

----------------------------------------------------------------------------
(* Properties of the relay, checked under SpecRelay and SpecRelayFair *)

\* The payloads, in order, that connection d has been written with c as
\* their sender.
ReceivedFrom(d, c) ==
    LET FromC(r) == r.from = c
        rs == SelectSeq(conns[d].received, FromC)
    IN  [i \in 1..Len(rs) |-> rs[i].payload]

\* The payloads, in order, that c sent while d was open on the same session.
SentWhileAttached(c, d) ==
    LET ToD(m) == d \in m.group
        ms == SelectSeq(conns[c].sent, ToD)
    IN  [i \in 1..Len(ms) |-> ms[i].payload]

\* The participant is in the session's participant list.
IsParticipant(sessionID, participantID) ==
    /\ MapHas(sessions, sessionID)
    /\ participantID \in Elems(MapGet(sessions, sessionID).Participants)

\* C13 as stated: no connection is ever written a payload it sent itself.
C13_NoEchoToSender ==
    \A c \in ConnIDs : \A i \in 1..Len(conns[c].received) : conns[c].received[i].from # c

\* C14 as stated: once the handler has relayed a message of a connection,
\* every other connection that was open on the same session when the
\* message was read has been written exactly that payload.
C14_OthersReceivePayload ==
    \A c \in ConnIDs : \A i \in 1..Len(conns[c].sent) :
        \A d \in conns[c].sent[i].group :
            \E j \in 1..Len(conns[d].received) :
                conns[d].received[j] = [from |-> c, payload |-> conns[c].sent[i].payload]

\* C15: a request on /ws/sync/{sessionId} that names an identifier not in
\* the table is answered 404 without an upgrade, and opens no connection
\* and creates no session.
C15_AttachUnknownSession ==
    [][(lastOp'.op = "YjsSync" /\ ~MapHas(sessions, lastOp'.id)) =>
           /\ lastOp'.status = 404
           /\ ~lastOp'.upgraded
           /\ conns' = conns
           /\ sessions' = sessions]_vars

\* A request is refused while the table holds a session and another client
\* is connected to it.
C15_Witness ==
    /\ lastOp.op = "YjsSync"
    /\ lastOp.status = 404
    /\ ~MapHas(sessions, lastOp.id)
    /\ sessions # {}
    /\ conns[lastOp.conn].state = "none"
    /\ \E d \in ConnIDs : conns[d].state = "open"

C17_DisconnectConverges ==
    \A c \in ConnIDs :
        (conns[c].state = "closed" /\ IsParticipant(conns[c].session, conns[c].participant))
            ~> ~IsParticipant(conns[c].session, conns[c].participant)

----------------------------------------------------------------------------
(* Properties of the broadcast controller, checked under SpecBroadcast *)

\* C18: StartBroadcast called while s.broadcasting is set returns the
\* "already broadcasting" error without calling zeroconf.Register, launches
\* no discovery goroutine, and leaves the registered server and the
\* broadcasting flag as they were.
C18_StartWhileBroadcasting ==
    [][(lastOp'.op = "StartBroadcast" /\ broadcasting) =>
           /\ lastOp'.err = "already broadcasting"
           /\ lastOp'.register = "not called"
           /\ registrations' = registrations
           /\ loopsStarted' = loopsStarted
           /\ loop' = loop
           /\ server = "registered" /\ server' = server
           /\ shutdowns' = shutdowns
           /\ broadcasting']_vars

\* A second StartBroadcast was refused while the first advertisement is
\* registered.
C18_Witness ==
    /\ lastOp.op = "StartBroadcast"
    /\ lastOp.err = "already broadcasting"
    /\ broadcasting
    /\ server = "registered"
    /\ registrations = 1
    /\ loopsStarted = 1
    /\ shutdowns = 0

\* C19: when zeroconf.Register fails in a StartBroadcast called while not
\* broadcasting, the error is returned, s.broadcasting stays false, no
\* discovery goroutine is launched and s.server is unchanged.
C19_RegistrationFailure ==
    [][(lastOp'.op = "StartBroadcast" /\ lastOp'.register = "failed") =>
           /\ ~broadcasting
           /\ lastOp'.err = "failed to register service"
           /\ ~broadcasting'
           /\ loopsStarted' = loopsStarted
           /\ loop' = loop
           /\ server' = server
           /\ registrations' = registrations]_vars

\* A registration failed after an earlier advertisement had been registered
\* and shut down: the handle of that earlier server is still the stored one.
C19_Witness ==
    /\ lastOp.op = "StartBroadcast"
    /\ lastOp.register = "failed"
    /\ ~broadcasting
    /\ server = "shutdown"
    /\ registrations = 1

\* C20 as stated: StopBroadcast called while not broadcasting shuts nothing
\* down and changes no state; called while broadcasting it shuts the server
\* down once and clears the broadcasting flag.
C20_StopBroadcastIdempotent ==
    [][lastOp'.op = "StopBroadcast" =>
           IF broadcasting
           THEN /\ lastOp'.shutdown
                /\ shutdowns' = shutdowns + 1
                /\ ~broadcasting'
           ELSE /\ ~lastOp'.shutdown
                /\ shutdowns' = shutdowns
                /\ server' = server
                /\ ~broadcasting']_vars

----------------------------------------------------------------------------
(* Presence *)

ActivityOps == {"updateActiveFile", "updateCursorPosition"}

\* The status the thresholds give for t ms without activity: editing below
\* 30 s, idle from 30 s on and below 300 s, away from 300 s on.
StatusAt(t) ==
    IF t < idleThreshold THEN "editing"
    ELSE IF t < awayThreshold THEN "idle"
    ELSE "away"

\* C24: for every time t in ms since the last activity, the status
\* updateStatus computes is editing if t < 30000, idle if
\* 30000 <= t < 300000 and away if t >= 300000, the boundaries included.
C24_StatusThresholds ==
    lastOp.op = "PresenceTimer" =>
        presence.currentStatus = StatusAt(lastOp.timeSinceActivity)

\* C25: every activity event, in whatever status, sets lastActivity to the
\* clock reading of the event, nothing else moves lastActivity, and a timer
\* callback less than 30 s after it computes editing.
C25_ActivityResetsClock ==
    [][ /\ lastOp'.op \in ActivityOps => presence'.lastActivity = dateNow
        /\ lastOp'.op \notin ActivityOps => presence'.lastActivity = presence.lastActivity
        /\ (lastOp'.op = "PresenceTimer" /\ dateNow - presence.lastActivity < idleThreshold)
               => presence'.currentStatus = "editing" ]_vars

\* The status was away, an activity event came, and the timer callback
\* 1 ms later computed editing.
C25_Witness ==
    /\ lastOp.op = "PresenceTimer"
    /\ lastOp.was = "away"
    /\ lastOp.timeSinceActivity = 1
    /\ presence.currentStatus = "editing"

----------------------------------------------------------------------------
(* The discovery cycle, checked under SpecDiscovery *)

\* The time from the start of one cycle to the start of the next.
CycleTime == BrowseTimeout + SleepTime

\* C26: the Cleanup that ends a cycle keeps every peer whose last upsert is
\* at most two cycles old, so a peer upserted in one cycle and not sighted
\* in the next is still in the registry after the next cycle's Cleanup.
C26_MissedCycleKeepsPeer ==
    [][lastOp'.op = "LoopCleanup" =>
           \A e \in peers : now - e.val.LastSeen <= 2 * CycleTime => e \in peers']_vars

\* The second cycle's Cleanup has run and the registry still holds a peer
\* stamped before the second cycle began.
C26_Witness ==
    /\ lastOp.op = "LoopCleanup"
    /\ cycles = 2
    /\ \E e \in peers : now - e.val.LastSeen >= CycleTime

\* C27: every entry taken from a cycle's channel is either skipped because
\* isSelf is true or built into a peer that is in the registry afterwards;
\* none is dropped, by the consumer or by the drainer.
C27_EveryRecordHandled ==
    /\ lastOp.op = "Drain" => isSelf(lastOp.entry, localIPv4, localIPv6)
    /\ lastOp.op = "Consume" =>
           \/ lastOp.self /\ ~lastOp.added
           \/ ~lastOp.self /\ lastOp.added /\ MapHas(peers, EntryPeerID(lastOp.entry))

\* The steps of the loop, in the order one cycle takes them.
CycleOrder ==
    { <<"off", "select">>, <<"select", "browse">>, <<"browse", "wait">>,
      <<"wait", "sleep">>, <<"sleep", "select">>, <<"select", "stopped">> }

\* C28: a cycle refreshes the local addresses, browses, filters and
\* upserts, evicts and sleeps, in that order: the addresses isSelf reads are
\* those of the cycle's refresh, an upsert happens only between the refresh
\* and the Cleanup of its cycle, and Cleanup runs once the consumer has
\* emptied the closed channel.
C28_CycleOrder ==
    [][ /\ loop' # loop => <<loop, loop'>> \in CycleOrder
        /\ lastOp'.op = "LoopSelect" => entries' = <<>>
        /\ lastOp'.op = "Consume" =>
               /\ loop \in {"browse", "wait"}
               /\ loop' = loop
               /\ localIPv4' = localIPv4 /\ localIPv6' = localIPv6
        /\ lastOp'.op = "LoopCleanup" => loop = "wait" /\ entries = <<>> /\ entries' = <<>>
        /\ lastOp'.op = "LoopSleep" => peers' = peers /\ entries = <<>>
        /\ peers' # peers => lastOp'.op \in {"Consume", "LoopCleanup"} ]_vars

\* A second cycle has upserted a peer at the end of its browse window and
\* has then gone through Cleanup and the sleep.
C28_Witness ==
    /\ lastOp.op = "LoopSleep"
    /\ cycles = 2
    /\ \E e \in peers : e.val.LastSeen = now - SleepTime /\ e.val.LastSeen >= CycleTime

\* C29: the registry holds at most one entry for a host, that is for an
\* instance name and port, whatever address came first in each sighting.
C29_OneEntryPerHost ==
    \A e1, e2 \in peers :
        (e1.val.Name = e2.val.Name /\ e1.val.Port = e2.val.Port) => e1 = e2

\* C30: while the controller is broadcasting a discovery loop is running
\* or about to run, and the service context is not cancelled.
C30_BroadcastingHasLoop ==
    broadcasting => (loop \notin {"off", "stopped"} /\ ~cancelled)

----------------------------------------------------------------------------
(* The shutdown, checked under SpecLifecycle and SpecLifecycleFair *)

LoopQuiet == loop \in {"off", "stopped"}

\* C21: no discovery loop survives the controller: once StopBroadcast has
\* torn the advertisement down, and once Stop has run, the loop has been
\* signalled to stop (the service context is done) unless it is not
\* running at all, so that it leaves at its next select.
C21_StopSignalsLoop ==
    (lastOp.op \in {"StopBroadcast", "Stop"} /\ lastOp.shutdown) => (cancelled \/ LoopQuiet)

\* C22: once the loop runs, a Browse that returns, at its timeout or with
\* any error, is followed by the wait for the consumer, Cleanup, the sleep
\* and the next select; the loop ends only when the service context is
\* done.
C22_BrowseErrorKeepsLoop ==
    [][ /\ lastOp'.op = "BrowseReturn" => loop' = "wait"
        /\ (loop = "wait" /\ loop' # loop /\ mainPc' # "exited") =>
               lastOp'.op = "LoopCleanup" /\ loop' = "sleep"
        /\ (loop = "sleep" /\ loop' # loop /\ mainPc' # "exited") => loop' = "select"
        /\ (~LoopQuiet /\ LoopQuiet') => cancelled
        /\ (loop = "select" /\ ~cancelled /\ cycles < MaxCycles) =>
               ENABLED (\E net \in LifecycleNetworks : LoopSelect(net)) ]_vars

\* The first Browse returned an error at once, and the loop has cleaned
\* up, slept and started its second cycle.
C22_Witness ==
    /\ lastOp.op = "LoopSelect"
    /\ cycles = 2
    /\ now = SleepTime
    /\ loop = "browse"

AllConnsClosed == \A c \in ConnIDs : conns[c].state # "open"

\* C23: after the shutdown signal the agent reaches a state in which the
\* discovery loop has stopped, the advertisement is deregistered and every
\* WebSocket connection is closed.
C23_ShutdownCompletes ==
    (lastOp.op = "Signal") ~> (LoopQuiet /\ server # "registered" /\ AllConnsClosed)

----------------------------------------------------------------------------
(* Frame properties of the session manager, checked under SpecSessions *)

\* C31: a leave from an existing session by a participant who is not in it
\* leaves that session's participant list and the whole table unchanged.
C31_LeaveByNonMember ==
    [][(/\ lastOp'.op = "Leave"
        /\ lastOp'.status # 400
        /\ MapHas(sessions, lastOp'.id)
        /\ lastOp'.participant \notin Elems(MapGet(sessions, lastOp'.id).Participants)) =>
           sessions' = sessions]_vars

\* A leave by a non-member was served and the session is still there with
\* its one participant.
C31_Witness ==
    /\ lastOp.op = "Leave"
    /\ lastOp.status = 200
    /\ MapHas(sessions, lastOp.id)
    /\ lastOp.participant \notin Elems(MapGet(sessions, lastOp.id).Participants)
    /\ Len(MapGet(sessions, lastOp.id).Participants) = 1

\* No element occurs twice in s.
NoDuplicates(s) == \A i, j \in 1..Len(s) : s[i] = s[j] => i = j

\* s without the elements equal to x, the others in their order.
Without(s, x) == LET Keep(y) == y # x IN SelectSeq(s, Keep)

\* C32: no participant list ever holds an identifier twice, and the lists
\* are in insertion order: a create starts the list with the initiator, a
\* join of a new participant puts it last, a join of a member changes
\* nothing, a leave takes the leaver out and keeps the others in their
\* order, and no request touches another session.
C32_ParticipantsOrdered ==
    [][ /\ \A e \in sessions' : NoDuplicates(e.val.Participants)
        /\ (lastOp'.op = "Create" /\ lastOp'.status = 200) =>
               /\ MapGet(sessions', lastOp'.id).Participants = <<lastOp'.initiator>>
               /\ \A e \in sessions : e.key # lastOp'.id => e \in sessions'
        /\ (lastOp'.op = "Join" /\ lastOp'.status = 200) =>
               LET old == MapGet(sessions, lastOp'.id).Participants
                   new == MapGet(sessions', lastOp'.id).Participants
               IN  /\ new = IF lastOp'.participant \in Elems(old) THEN old
                            ELSE Append(old, lastOp'.participant)
                   /\ \A e \in sessions : e.key # lastOp'.id => e \in sessions'
        /\ (lastOp'.op = "Leave" /\ lastOp'.status = 200 /\ MapHas(sessions, lastOp'.id)) =>
               LET old == MapGet(sessions, lastOp'.id).Participants
                   rest == Without(old, lastOp'.participant)
               IN  /\ IF rest = <<>> THEN ~MapHas(sessions', lastOp'.id)
                      ELSE /\ MapHas(sessions', lastOp'.id)
                           /\ MapGet(sessions', lastOp'.id).Participants = rest
                   /\ \A e \in sessions : e.key # lastOp'.id => e \in sessions'
        /\ lastOp'.op \notin {"Create", "Join", "Leave"} => sessions' = sessions ]_vars

\* The initiator left and joined again: it now comes after the participant
\* who joined in between.
C32_Witness ==
    /\ lastOp.op = "Join"
    /\ lastOp.status = 200
    /\ MapHas(sessions, lastOp.id)
    /\ MapGet(sessions, lastOp.id).Initiator = lastOp.participant
    /\ Len(MapGet(sessions, lastOp.id).Participants) = 2
    /\ MapGet(sessions, lastOp.id).Participants[2] = lastOp.participant
    /\ MapGet(sessions, lastOp.id).Participants[1] # lastOp.participant

----------------------------------------------------------------------------
(* Frame properties of the registry, checked under Spec *)

\* C33: an entry of the registry is gone or altered after a call only if
\* the call is Remove of its identifier, or Cleanup with a timeout its age
\* exceeds, or Add of its own identifier (which replaces it); Remove of an
\* absent identifier changes nothing, and Get, GetAll and Count change
\* nothing.
C33_EntriesLeaveOnlyByRemoveOrEvict ==
    [][ /\ \A e \in peers : e \notin peers' =>
               \/ /\ lastOp'.op = "Remove" /\ lastOp'.id = e.key
                  /\ ~MapHas(peers', e.key)
               \/ /\ lastOp'.op = "Cleanup" /\ now - e.val.LastSeen > lastOp'.timeout
                  /\ ~MapHas(peers', e.key)
               \/ /\ lastOp'.op = "Add" /\ lastOp'.peer.ID = e.key
                  /\ MapHas(peers', e.key)
        /\ (lastOp'.op = "Remove" /\ ~MapHas(peers, lastOp'.id)) => peers' = peers
        /\ lastOp'.op \in {"Get", "GetAll", "Count", "Tick"} => peers' = peers ]_vars

\* Remove took one of three entries out and left the other two.
C33_Witness ==
    /\ lastOp.op = "Remove"
    /\ MapHas(lastOp.pre, lastOp.id)
    /\ RegistryCount(lastOp.pre) = 3
    /\ RegistryCount(peers) = 2
    /\ peers \subseteq lastOp.pre

----------------------------------------------------------------------------
(* The advertisement and the controller's loops and servers *)

MetadataKeys == {"repoHash", "branch", "activeFile", "status", "trusted"}

\* C34: the advertisement StartBroadcast has registered carries the keys
\* repoHash, branch, activeFile, status and trusted, with status and
\* activeFile those of the local presence last set by the presence update.
C34_AdvertisesPresence ==
    (lastOp.op = "StartBroadcast" /\ lastOp.register = "ok") =>
        LET txt == parseTXT(advertised) IN
        /\ MetadataKeys \subseteq MapKeys(txt)
        /\ MapIndex(txt, "status") = localPresence.Status
        /\ MapIndex(txt, "activeFile") = localPresence.ActiveFile

\* C35: at most one discovery loop is running, whatever sequence of
\* StartBroadcast, StopBroadcast and Stop has been called.
C35_OneLoop == loopsRunning <= 1

\* C36: once every start request has returned, the advertisements
\* registered and not shut down number one when IsBroadcasting is true and
\* none when it is false.
C36_OneAdvertisement ==
    (\A h \in Handlers : startPc[h] = "idle") =>
        liveServers = IF broadcasting THEN 1 ELSE 0

----------------------------------------------------------------------------
(* The relay's connections and the session table, checked under SpecRelay *)

----------------------------------------------------------------------------
(* The extension's clients, checked under SpecClients and SpecEditor *)

\* C37: a session is in the session table as long as a client that created
\* or joined it has not left it.
C37_SessionOutlivesNoClient ==
    \A c \in Clients : \A sessionID \in clientIn[c] : MapHas(sessions, sessionID)

\* C39: the session manager creates an agent session only when it has no
\* active session and no other startCoEdit has had one created that it has
\* still to install, and a startCoEdit that installs its session does not
\* overwrite an active one.
C39_OneActiveSession ==
    /\ (lastOp.op = "createRequest" /\ lastOp.served) =>
           (~lastOp.active /\ lastOp.others = 0)
    /\ (lastOp.op = "startCoEdit" /\ lastOp.outcome = "started") => ~lastOp.overwrote

\* C40: when stopCoEdit, called with an active session, has returned or
\* thrown, isInSession() is false; called without one it sends no leave
\* request and changes nothing.
C40_StopLeavesSession ==
    lastOp.op = "stopCoEdit" =>
        /\ ~isInSession(activeSession)
        /\ ~lastOp.hadSession => ~lastOp.sent

============================================================================
